---------------------------- MODULE Spec2Model ----------------------------
(***************************************************************************)
(* A model of the web research agent (apophis30/web-research-agent):       *)
(* the Redis-backed cache wrappers, the query analyzer, the search-query   *)
(* selector, the news aggregator, the conversation manager and the         *)
(* research orchestrator.                                                  *)
(*                                                                         *)
(* Text is modelled as a sequence of pieces (TLA+ strings): Python string  *)
(* concatenation is sequence concatenation, so two formatted cache keys    *)
(* are equal exactly when the Python f-strings are equal.  The pieces used *)
(* are uniquely decodable (no piece is a concatenation of others).         *)
(*                                                                         *)
(* Every external collaborator (Redis, the generation service, the news    *)
(* and search providers) is an environment whose answer is chosen          *)
(* nondeterministically by the action that calls it.                       *)
(***************************************************************************)
EXTENDS Integers, Sequences, FiniteSets, TLC

VARIABLES
    redis,      \* the key/value store: key (text) -> serialized JSON value
    redisUp,    \* whether the Redis server currently answers
    qaLog,      \* the last two completed analyze_query calls (observation)
    selStrategy, \* select_best_search_query: the search_strategy argument
    selOriginal, \* select_best_search_query: the original_query_str argument
    selResult,  \* what the last call of the selector returned
    selPrev,    \* what the call before it returned
    selCalls,   \* how many times the selector has been called on the inputs
    serpKeySet, \* whether SERP_API_KEY is set in the environment
    newsLast,   \* the last completed fetch_news call (observation)
    newsWriter, \* for each news cache entry, the call that wrote it
                \* (observation)
    histLast,   \* the last history operation, nothing having happened to
                \* the store since (observation)
    histSent,   \* how many messages of the conversation have been handed
                \* to a store that answered (the next message is numbered
                \* after them)
    resPc,      \* perform_research: the call the run is waiting on
    resRun,     \* perform_research: the local variables of the run
    resResult,  \* perform_research: how the last run ended
    scrLast,    \* the last scrape_webpage or read_webpage call, nothing
                \* having happened to the store since (observation)
    robots_txt_cache,   \* webScraper.robots_txt_cache: the parsed robots.txt
                        \* of each origin fetched with status 200
    synLog,     \* the last two synthesize_information calls (observation)
    routeLast,  \* the last detect_intent_and_execute_tools call
                \* (observation)
    chatTurns,  \* chat: the position and the local variables of each turn
                \* in progress, what it did and what its tools and the
                \* model answered (observation)
    SERPER_API_KEYS,    \* webScraper.SERPER_API_KEYS
    serperKeyIndex,     \* webScraper.serperKeyIndex
    serperLog,  \* the keys handed out, in the order of the calls
                \* (observation)
    searching,  \* search_web: the position, the key and the result of
                \* each request
    loopRequests,   \* the requests running on the event loop: what each
                    \* is doing
    loopHeld,   \* the request whose synchronous call occupies the event
                \* loop, "none" when the loop is free
    cacheLast,  \* the last call of a cached operation with what its
                \* providers answered (observation)
    endpointRequests,   \* routers/app.py: the requests of the research and
                        \* scrape endpoints, their position and outcome
    genLast,    \* the last generation request of a caller: the response
                \* and what the caller made of it (observation)
    keyLast     \* the last two cache keys built, with the operation, the
                \* owner and the arguments they were built for
                \* (observation)

selVars == <<selStrategy, selOriginal, selResult, selPrev, selCalls>>

newsVars == <<serpKeySet, newsLast, newsWriter>>

histVars == <<histLast, histSent>>

resVars == <<resPc, resRun, resResult>>

scrVars == <<scrLast, robots_txt_cache>>

serperVars == <<SERPER_API_KEYS, serperKeyIndex, serperLog, searching>>

loopVars == <<loopRequests, loopHeld>>

apiVars == <<endpointRequests, genLast, keyLast>>

vars ==
    <<redis, redisUp, qaLog, selVars, newsVars, histVars, resVars, scrVars,
      synLog, routeLast, chatTurns, serperVars, loopVars, cacheLast,
      apiVars>>

(***************************************************************************)
(* Python values                                                           *)
(***************************************************************************)
\* Python's None as the value of a field of an envelope.  No model text
\* equals it.
None == "None"

\* An optional value: what a lookup that may find nothing returns.
Some(v) == [some |-> TRUE, val |-> v]

Nothing == [some |-> FALSE]

\* The observation of an operation that has not been called yet.
NoCall == [made |-> FALSE]

NoOp == [made |-> FALSE, op |-> "none"]

\* The local variables of perform_research before a run: sources, the
\* positions in sources of top_web_sources, the loop index, results (the
\* scrape results), synthesis_result and, as observations, the sources as
\* Step 3 left them and the calls issued so far.
NoRun ==
    [depth |-> "none", original |-> <<>>, query |-> <<>>,
     query_analysis |-> Nothing, sources |-> <<>>, top |-> <<>>, i |-> 0,
     results |-> <<>>, synthesis_result |-> Nothing, gathered |-> <<>>,
     days_back |-> 0, calls |-> <<>>]

Returned(value) == [made |-> TRUE, raised |-> FALSE, value |-> value]

Raised(error) == [made |-> TRUE, raised |-> TRUE, error |-> error]

\* json.dumps / json.loads for the payloads this program stores (dicts and
\* lists of str, int, None): the store holds the serialized form, and
\* loading a stored form gives back the value that was dumped.
JsonDumps(v) == [json |-> v]

JsonLoads(s) == s.json

(***************************************************************************)
(* config/redis.py                                                         *)
(***************************************************************************)
\* store_stream_data_in_redis: SET key value EX 3600; an exception of the
\* client is caught and False returned, the store left as it was.
RedisStored(store, up, key, data) ==
    IF up
    THEN [k \in DOMAIN store \cup {key} |->
              IF k = key THEN JsonDumps(data) ELSE store[k]]
    ELSE store

\* A read that answers from the entries whether or not the client raises
\* (the mutant of RedisGet).
RedisGetStale(store, up, key) ==
    IF key \in DOMAIN store THEN Some(JsonLoads(store[key])) ELSE Nothing

\* get_stream_data_from_redis: the loaded value, or None (Nothing) when the
\* key is absent or the client raises.
RedisGet(store, up, key) ==
    IF up /\ key \in DOMAIN store
    THEN Some(JsonLoads(store[key]))
    ELSE Nothing

\* The expiry (ex=3600) of one key elapses.
Expire ==
    \E k \in DOMAIN redis :
        /\ redis' = [x \in DOMAIN redis \ {k} |-> redis[x]]
        /\ histLast' = NoOp
        /\ scrLast' = NoCall
        /\ UNCHANGED <<redisUp, qaLog, selVars, newsVars, histSent, resVars,
                       robots_txt_cache, synLog, routeLast,
                       chatTurns, serperVars, loopVars, cacheLast, apiVars>>

\* The Redis server stops answering: every client call raises.
RedisFail ==
    /\ redisUp
    /\ redisUp' = FALSE
    /\ histLast' = NoOp
    /\ scrLast' = NoCall
    /\ UNCHANGED <<redis, qaLog, selVars, newsVars, histSent, resVars,
                   robots_txt_cache, synLog, routeLast,
                       chatTurns, serperVars, loopVars, cacheLast, apiVars>>

\* The Redis server answers again.
RedisRecover ==
    /\ ~redisUp
    /\ redisUp' = TRUE
    /\ histLast' = NoOp
    /\ scrLast' = NoCall
    /\ UNCHANGED <<redis, qaLog, selVars, newsVars, histSent, resVars,
                   robots_txt_cache, synLog, routeLast,
                       chatTurns, serperVars, loopVars, cacheLast, apiVars>>

(***************************************************************************)
(* scripts/web/analyzer.py: analyze_query                                  *)
(***************************************************************************)
QaUsers == {<<"u1">>}

QaQueries == {<<"q1">>, <<"q2">>}

\* The texts the generation service may answer with (temperature 0.2: two
\* requests for the same query need not give the same text).
AnalysisTexts == {"analysis-A", "analysis-B"}

\* The exceptions a generation request may raise.
GenErrors == {"timeout"}

\* What a generation request comes back with.
GenOutcomes ==
    {[ok |-> TRUE, text |-> t] : t \in AnalysisTexts}
        \cup {[ok |-> FALSE, text |-> e] : e \in GenErrors}

\* cache_key = f"{user_id}:query_analysis:{query}"
QueryAnalysisKey(user_id, query) == user_id \o <<":query_analysis:">> \o query

\* The regex extraction of the sections from the response text.  The model
\* texts stand for responses with these intent and search strategy sections
\* (a text is a sequence of words and quote characters).
ParseAnalysis(text) ==
    IF text = "analysis-A"
    THEN [intent |-> <<"Latest", "news">>,
          search_strategy |-> <<"-", "\"", "ai", "news", "\"">>]
    ELSE [intent |-> <<"history">>, search_strategy |-> <<>>]

\* The envelope of a successful analysis.
QaSuccess(text) ==
    [status |-> "success",
     message |-> <<"Query analysis completed">>,
     analysis |-> ParseAnalysis(text),
     raw_analysis |-> text]

\* The envelope of the except branch.
QaError(err) ==
    [status |-> "error",
     message |-> <<"Error analyzing query: ", err>>,
     analysis |-> None,
     raw_analysis |-> None]

\* Whether analyze_query writes the result of this generation outcome to
\* the cache: only inside the try block, after a successful generation.
QaCachesOutcomeAlways(out) == TRUE

QaCachesOutcome(out) == out.ok

\* Whether a cached value answers the call (if cached_result:): the stored
\* envelopes are non-empty dicts, which are truthy.
QaHitIgnored(cached) == FALSE

QaHit(cached) == cached.some

\* analyze_query as a function of the store it finds and of the outcome the
\* generation service would give: the returned envelope, the store after
\* the call, and what the call did.
AnalyzeQueryCall(store, up, user_id, query, out) ==
    LET key == QueryAnalysisKey(user_id, query)
        cached == RedisGet(store, up, key)
    IN  IF QaHit(cached)
        THEN [result |-> cached.val, store |-> store, gen |-> 0,
              genFailed |-> FALSE, stored |-> FALSE]
        ELSE LET result == IF out.ok THEN QaSuccess(out.text)
                           ELSE QaError(out.text)
             IN  [result |-> result,
                  store |-> IF QaCachesOutcome(out)
                            THEN RedisStored(store, up, key, result)
                            ELSE store,
                  gen |-> 1,
                  genFailed |-> ~out.ok,
                  stored |-> QaCachesOutcome(out) /\ up]

\* The last two entries of a log extended by one.
Window(log, e) == IF Len(log) < 2 THEN Append(log, e) ELSE <<log[2], e>>

\* One analyze_query call, from its first line to its return.
AnalyzeQuery ==
    \E u \in QaUsers, q \in QaQueries, out \in GenOutcomes :
        LET c == AnalyzeQueryCall(redis, redisUp, u, q, out)
            key == QueryAnalysisKey(u, q)
        IN  /\ redis' = c.store
            /\ qaLog' = Window(qaLog,
                   [user |-> u, query |-> q, result |-> c.result,
                    gen |-> c.gen, genFailed |-> c.genFailed,
                    stored |-> c.stored,
                    changed |-> c.store # redis,
                    present |-> key \in DOMAIN redis,
                    readable |-> redisUp /\ key \in DOMAIN redis])
            /\ UNCHANGED <<redisUp, selVars, newsVars, histVars, resVars, scrVars, synLog, routeLast,
                       chatTurns, serperVars, loopVars, cacheLast, apiVars>>

InitAnalyze ==
    /\ redis = <<>>
    /\ redisUp = TRUE
    /\ qaLog = <<>>
    /\ selStrategy = <<>>
    /\ selOriginal = <<>>
    /\ selResult = <<>>
    /\ selPrev = <<>>
    /\ selCalls = 0
    /\ serpKeySet = TRUE
    /\ newsLast = NoCall
    /\ newsWriter = <<>>
    /\ histLast = NoOp
    /\ histSent = 0
    /\ resPc = "idle"
    /\ resRun = NoRun
    /\ resResult = NoCall
    /\ scrLast = NoCall
    /\ robots_txt_cache = <<>>
    /\ synLog = <<>>
    /\ routeLast = NoCall
    /\ chatTurns = <<>>
    /\ SERPER_API_KEYS = <<"key 1">>
    /\ serperKeyIndex = 0
    /\ serperLog = <<>>
    /\ searching = {}
    /\ loopRequests = <<>>
    /\ loopHeld = "none"
    /\ cacheLast = NoCall
    /\ endpointRequests = <<>>
    /\ genLast = NoCall
    /\ keyLast = <<>>

NextAnalyze == AnalyzeQuery \/ Expire \/ RedisFail \/ RedisRecover

SpecAnalyze == InitAnalyze /\ [][NextAnalyze]_vars

\* Two envelopes are the same payload.
SameEnvelope(a, b) == a.status = b.status /\ a = b

\* The log holds two consecutive calls for one (user_id, query).
QaSamePair ==
    /\ Len(qaLog) = 2
    /\ qaLog[1].user = qaLog[2].user
    /\ qaLog[1].query = qaLog[2].query

\* C1 as stated: for any fixed (user_id, query), two consecutive
\* analyze_query calls return identical payloads and the second issues no
\* generation request.
C1_AsStated ==
    QaSamePair =>
        /\ SameEnvelope(qaLog[1].result, qaLog[2].result)
        /\ qaLog[2].gen = 0

\* C1, amended: when the first of two consecutive analyze_query calls for
\* one (user_id, query) returns success with its payload in the cache
\* (written by it, or read from there), and the entry is still readable
\* when the second call is made, the second call returns the identical
\* payload and issues no generation request.
C1_IdempotentCaching ==
    (/\ QaSamePair
     /\ qaLog[1].result.status = "success"
     /\ (qaLog[1].stored \/ qaLog[1].gen = 0)
     /\ qaLog[2].readable)
        => /\ SameEnvelope(qaLog[1].result, qaLog[2].result)
           /\ qaLog[2].gen = 0

\* A first call that generated and cached its result, followed by a call
\* for the same pair answered from that entry.
C1_Witness ==
    /\ QaSamePair
    /\ qaLog[1].gen = 1
    /\ qaLog[1].stored
    /\ qaLog[2].readable
    /\ qaLog[2].gen = 0
    /\ SameEnvelope(qaLog[1].result, qaLog[2].result)

\* C2 as stated: a call whose generation request fails returns status
\* error and leaves the cache unchanged, and the next call for the same
\* (user_id, query) issues a new generation request.
C2_AsStated ==
    /\ \A i \in 1..Len(qaLog) :
           qaLog[i].genFailed =>
               /\ qaLog[i].result.status = "error"
               /\ ~qaLog[i].changed
    /\ (QaSamePair /\ qaLog[1].genFailed) => qaLog[2].gen = 1

\* C2, amended: a call whose generation request fails returns status error
\* and leaves the cache unchanged; the next call for the same pair issues a
\* new generation request provided the key held no entry when the failed
\* call was made (a call that missed only because the cache read failed
\* leaves the older entry in place, and the next call may be served by it).
C2_FailureNotCached ==
    /\ \A i \in 1..Len(qaLog) :
           qaLog[i].genFailed =>
               /\ qaLog[i].result.status = "error"
               /\ ~qaLog[i].changed
    /\ (QaSamePair /\ qaLog[1].genFailed /\ ~qaLog[1].present)
           => qaLog[2].gen = 1

\* A failed call on an empty key while the cache is up, followed by a call
\* for the same pair that generates again.
C2_Witness ==
    /\ QaSamePair
    /\ qaLog[1].genFailed
    /\ ~qaLog[1].present
    /\ qaLog[1].result.status = "error"
    /\ qaLog[2].gen = 1
    /\ qaLog[2].stored

(***************************************************************************)
(* scripts/web/web.py: select_best_search_query                            *)
(*                                                                         *)
(* A text is a sequence of tokens: the double quote, or a word.  Adjacent  *)
(* words are separated by one space; a quote touches its neighbours.       *)
(* Scores are exact fractions where Python computes IEEE doubles: two      *)
(* candidates with the same length and the same matches go through the     *)
(* same float operations, so their tie is a tie in Python too.             *)
(***************************************************************************)
Q == "\""

\* str.lower() of a word.
Lower(w) ==
    CASE w = "News" -> "news"
      [] w = "AI" -> "ai"
      [] OTHER -> w

\* time_indicators, line 163.
TimeIndicators == {"latest", "recent", "current", "today", "updates", "news"}

\* The time indicators that occur in the lowercased word (indicator in
\* query.lower()): no indicator holds a space, so one that occurs in the
\* candidate occurs inside one of its words.
IndicatorsIn(w) ==
    CASE Lower(w) \in TimeIndicators -> {Lower(w)}
      [] Lower(w) = "newsletter" -> {"news"}
      [] OTHER -> {}

RECURSIVE NextQuote(_, _)
\* The first position >= i of a quote in text, 0 when there is none.
NextQuote(text, i) ==
    IF i > Len(text) THEN 0
    ELSE IF text[i] = Q THEN i
    ELSE NextQuote(text, i + 1)

RECURSIVE LastQuote(_, _)
\* The last position <= i of a quote in text, 0 when there is none.
LastQuote(text, i) ==
    IF i < 1 THEN 0
    ELSE IF text[i] = Q THEN i
    ELSE LastQuote(text, i - 1)

\* What re.findall would return for the greedy pattern r'"(.+)"': the one
\* stretch between the first quote and the last, quotes inside included.
FindAllGreedy(text) ==
    LET open == NextQuote(text, 1)
        close == LastQuote(text, Len(text))
    IN  IF open = 0 \/ close <= open + 1 THEN <<>>
        ELSE <<SubSeq(text, open + 1, close - 1)>>

RECURSIVE FindAllFrom(_, _)
\* re.findall(r'"([^"]+)"', text) scanning from position i: the non-empty
\* quote-free stretches between a quote and the next one, left to right,
\* without overlap; an empty "" is no match and the scan resumes at its
\* second quote.
FindAllFrom(text, i) ==
    LET open == NextQuote(text, i)
        close == IF open = 0 THEN 0 ELSE NextQuote(text, open + 1)
    IN  IF open = 0 \/ close = 0 THEN <<>>
        ELSE IF close = open + 1 THEN FindAllFrom(text, close)
        ELSE <<SubSeq(text, open + 1, close - 1)>>
                 \o FindAllFrom(text, close + 1)

FindAll(text) == FindAllFrom(text, 1)

\* Exact fractions.
RECURSIVE Gcd(_, _)
Gcd(a, b) == IF b = 0 THEN a ELSE Gcd(b, a % b)

Frac(n, d) == LET g == Gcd(n, d) IN [n |-> n \div g, d |-> d \div g]

FracAdd(x, y) == Frac(x.n * y.d + y.n * x.d, x.d * y.d)

FracLess(x, y) == x.n * y.d < y.n * x.d

\* [w.lower() for w in words]
LowerAll(words) == [i \in 1..Len(words) |-> Lower(words[i])]

\* list.count(term)
Count(words, term) == Cardinality({i \in 1..Len(words) : words[i] = term})

RECURSIVE SumLen(_, _)
\* sum(len(query.split()) for query in search_queries[i..])
SumLen(queries, i) ==
    IF i > Len(queries) THEN 0 ELSE Len(queries[i]) + SumLen(queries, i + 1)

\* term_score = (tf * (k1 + 1)) / (tf + k1 * norm_factor) with k1 = 1.2,
\* b = 0.75 and norm_factor = 1 - b + b * (query_length / avg_query_length),
\* avg_query_length = total / n:
\*     22 tf total / (10 tf total + 3 total + 9 query_length n).
TermScore(tf, queryLength, total, n) ==
    Frac(22 * tf * total, 10 * tf * total + 3 * total + 9 * queryLength * n)

RECURSIVE Bm25From(_, _, _, _, _)
\* The loop over original_terms from position i on (a term that occurs
\* twice in the original query is counted twice).
Bm25From(originalTerms, i, queryTerms, total, n) ==
    IF i > Len(originalTerms) THEN Frac(0, 1)
    ELSE LET term == originalTerms[i]
             rest == Bm25From(originalTerms, i + 1, queryTerms, total, n)
         IN  IF \E k \in 1..Len(queryTerms) : queryTerms[k] = term
             THEN FracAdd(TermScore(Count(queryTerms, term),
                                    Len(queryTerms), total, n), rest)
             ELSE rest

\* base_score: 1 per time indicator that occurs in the candidate, 2 if the
\* candidate holds a quote.
BaseScore(query) ==
    Cardinality(UNION {IndicatorsIn(query[k]) : k \in 1..Len(query)})
        + (IF \E k \in 1..Len(query) : query[k] = Q THEN 2 ELSE 0)

\* final_score of one candidate among search_queries.
FinalScore(query, searchQueries, originalQuery) ==
    FracAdd(Bm25From(LowerAll(originalQuery), 1, LowerAll(query),
                     SumLen(searchQueries, 1), Len(searchQueries)),
            Frac(BaseScore(query), 1))

RECURSIVE InsertDescUnstable(_, _)
InsertDescUnstable(sorted, e) ==
    IF sorted = <<>> THEN <<e>>
    ELSE IF FracLess(Head(sorted).score, e.score)
            \/ Head(sorted).score = e.score
         THEN <<e>> \o sorted
         ELSE <<Head(sorted)>> \o InsertDescUnstable(Tail(sorted), e)

RECURSIVE InsertDesc(_, _)
\* Insertion of e, which came after every element of sorted in the input,
\* into a list sorted by descending score: behind the elements that score
\* at least as much (list.sort(reverse=True) is stable).
InsertDesc(sorted, e) ==
    IF sorted = <<>> THEN <<e>>
    ELSE IF FracLess(Head(sorted).score, e.score)
         THEN <<e>> \o sorted
         ELSE <<Head(sorted)>> \o InsertDesc(Tail(sorted), e)

RECURSIVE SortDescFrom(_, _, _)
\* scored_queries.sort(key=lambda x: x[1], reverse=True)
SortDescFrom(scored, i, acc) ==
    IF i > Len(scored) THEN acc
    ELSE SortDescFrom(scored, i + 1, InsertDesc(acc, scored[i]))

\* The selection among candidates that a lone candidate would skip.
ScoredChoice(searchQueries, originalQuery) ==
    LET scored == [i \in 1..Len(searchQueries) |->
                      [query |-> searchQueries[i],
                       score |-> FinalScore(searchQueries[i], searchQueries,
                                            originalQuery)]]
    IN  SortDescFrom(scored, 1, <<>>)[1].query

\* A variant that scores a lone candidate too and falls back to the
\* original query when it scores nothing.
SelectScoringLoneCandidate(searchStrategy, originalQuery) ==
    LET searchQueries == FindAll(searchStrategy)
    IN  IF searchQueries = <<>> THEN originalQuery
        ELSE IF FinalScore(searchQueries[1], searchQueries, originalQuery)
                    = Frac(0, 1)
             THEN originalQuery
             ELSE ScoredChoice(searchQueries, originalQuery)

select_best_search_query(searchStrategy, originalQuery) ==
    LET searchQueries == FindAll(searchStrategy)
    IN  IF searchQueries = <<>> THEN originalQuery
        ELSE IF Len(searchQueries) = 1 THEN searchQueries[1]
        ELSE ScoredChoice(searchQueries, originalQuery)

\* The inputs of the selector runs.
MaxStrategyLen == 7

MaxSelectCalls == 2

StrategyTokens == {Q, "News", "ai"}

Strategies == UNION {[1..k -> StrategyTokens] : k \in 0..MaxStrategyLen}

ExampleStrategy ==
    <<"-", Q, "latest", "AI", "news", Q,
      "-", Q, "AI", "breakthroughs", "2024", Q,
      "-", Q, "current", "AI", "trends", Q>>

ExampleQuery == <<"latest", "AI", "news", "today">>

OriginalQueries ==
    {<<>>, <<"news">>, <<"AI">>, <<"ai", "news">>, <<"ai", "ai">>,
     <<"today", "weather">>}

InitSelect ==
    /\ redis = <<>>
    /\ redisUp = TRUE
    /\ qaLog = <<>>
    /\ \/ selStrategy \in Strategies /\ selOriginal \in OriginalQueries
       \/ selStrategy = ExampleStrategy /\ selOriginal = ExampleQuery
    /\ selResult = <<>>
    /\ selPrev = <<>>
    /\ selCalls = 0
    /\ serpKeySet = TRUE
    /\ newsLast = NoCall
    /\ newsWriter = <<>>
    /\ histLast = NoOp
    /\ histSent = 0
    /\ resPc = "idle"
    /\ resRun = NoRun
    /\ resResult = NoCall
    /\ scrLast = NoCall
    /\ robots_txt_cache = <<>>
    /\ synLog = <<>>
    /\ routeLast = NoCall
    /\ chatTurns = <<>>
    /\ SERPER_API_KEYS = <<"key 1">>
    /\ serperKeyIndex = 0
    /\ serperLog = <<>>
    /\ searching = {}
    /\ loopRequests = <<>>
    /\ loopHeld = "none"
    /\ cacheLast = NoCall
    /\ endpointRequests = <<>>
    /\ genLast = NoCall
    /\ keyLast = <<>>

\* One call of select_best_search_query on the inputs of this run.
SelectCall ==
    /\ selCalls < MaxSelectCalls
    /\ selResult' = select_best_search_query(selStrategy, selOriginal)
    /\ selPrev' = selResult
    /\ selCalls' = selCalls + 1
    /\ UNCHANGED <<selStrategy, selOriginal, redis, redisUp, qaLog, newsVars, histVars, resVars, scrVars, synLog, routeLast,
                       chatTurns, serperVars, loopVars, cacheLast, apiVars>>

NextSelect == SelectCall

SpecSelect == InitSelect /\ [][NextSelect]_vars


\* The text holds no double-quoted candidate: no two successive quotes with
\* something between them.
NoQuotedCandidate(text) ==
    ~ \E i, j \in 1..Len(text) :
          /\ i + 1 < j
          /\ text[i] = Q
          /\ text[j] = Q
          /\ \A k \in (i + 1)..(j - 1) : text[k] # Q

\* C3: with no double-quoted candidate in the strategy text the selector
\* returns the original query unchanged; with exactly one it returns that
\* candidate verbatim, whatever it scores.
C3_FewerThanTwoCandidates ==
    selCalls >= 1 =>
        /\ NoQuotedCandidate(selStrategy) => selResult = selOriginal
        /\ Len(FindAll(selStrategy)) = 1
               => selResult = FindAll(selStrategy)[1]

\* A lone candidate that scores nothing against the original query, and is
\* returned nevertheless.
C3_Witness ==
    /\ selCalls >= 1
    /\ Len(FindAll(selStrategy)) = 1
    /\ FinalScore(FindAll(selStrategy)[1], FindAll(selStrategy), selOriginal)
           = Frac(0, 1)
    /\ selResult = FindAll(selStrategy)[1]
    /\ selResult # selOriginal

\* x scores at most as much as y.
FracLeq(x, y) == x.n * y.d <= y.n * x.d

\* Candidate i is the first of the candidates that score highest.
FirstBest(cands, original, i) ==
    LET score(k) == FinalScore(cands[k], cands, original)
    IN  /\ \A k \in 1..Len(cands) : FracLeq(score(k), score(i))
        /\ \A k \in 1..(i - 1) : score(k) # score(i)

\* C4: with two or more candidates the selector returns the candidate whose
\* total score is highest, the first in the text among equals; a repeated
\* call returns the same candidate; on the example of the specification the
\* candidates score 5, 1 and 2 and the first is returned.
C4_HighestScoreFirstSeen ==
    LET cands == FindAll(selStrategy)
    IN  (selCalls >= 1 /\ Len(cands) >= 2) =>
            /\ \E i \in 1..Len(cands) :
                   /\ FirstBest(cands, selOriginal, i)
                   /\ selResult = cands[i]
            /\ selCalls >= 2 => selPrev = selResult
            /\ (selStrategy = ExampleStrategy /\ selOriginal = ExampleQuery) =>
                   /\ FinalScore(cands[1], cands, selOriginal) = Frac(5, 1)
                   /\ FinalScore(cands[2], cands, selOriginal) = Frac(1, 1)
                   /\ FinalScore(cands[3], cands, selOriginal) = Frac(2, 1)
                   /\ selResult = <<"latest", "AI", "news">>

\* Two different candidates tie for the highest score (one by a recency
\* keyword, one by a term of the original query) and the first is returned,
\* twice.
C4_Witness ==
    LET cands == FindAll(selStrategy)
    IN  /\ selCalls = 2
        /\ Len(cands) = 2
        /\ cands[1] # cands[2]
        /\ FinalScore(cands[1], cands, selOriginal)
               = FinalScore(cands[2], cands, selOriginal)
        /\ FinalScore(cands[1], cands, selOriginal) # Frac(0, 1)
        /\ selResult = cands[1]
        /\ selPrev = selResult


(***************************************************************************)
(* scripts/web/newsAggregator.py: parse_query, fetch_news                  *)
(*                                                                         *)
(* A query or user id is a sequence of pieces; the piece ":news:" is the   *)
(* five characters between two colons, the other pieces are words.  Dates  *)
(* are counted in whole days before the clock reading of the call.         *)
(***************************************************************************)
RECURSIVE SanitizedWords(_, _, _)
\* re.sub(r'[^\w\s\-\+\'\"]+', ' ', query) followed by strip().split(): the
\* words of the query, a colon ending the word before it.  cur is the word
\* being read.
SanitizedWords(query, i, cur) ==
    LET flush == IF cur = <<>> THEN <<>> ELSE <<cur>>
    IN  IF i > Len(query) THEN flush
        ELSE IF query[i] = ":news:"
             THEN flush \o <<<<"news">>>> \o SanitizedWords(query, i + 1, <<>>)
             ELSE SanitizedWords(query, i + 1, Append(cur, query[i]))

RECURSIVE JoinQuoted(_, _)
\* quote(' '.join(words)): the words with %20 between them.
JoinQuoted(words, i) ==
    IF i > Len(words) THEN <<>>
    ELSE (IF i = 1 THEN <<>> ELSE <<"%20">>) \o words[i]
             \o JoinQuoted(words, i + 1)

parse_query(query) ==
    IF query = <<>> THEN <<"news">>
    ELSE JoinQuoted(SanitizedWords(query, 1, <<>>), 1)

\* cache_key = f"{user_id}:news:{query}:{max_results}:{days_back}"; the
\* two numbers are pieces of their own (a decimal numeral holds no colon).
NewsKey(user_id, query, max_results, days_back) ==
    user_id \o <<":news:">> \o query
        \o <<":", max_results, ":", days_back>>

\* The date field of a provider article: a string strptime accepts (daysAgo
\* days before now), a string it rejects, or no date key at all.
DateOk(daysAgo) == [kind |-> "ok", daysAgo |-> daysAgo]

DateBad == [kind |-> "bad", daysAgo |-> 0]

DateAbsent == [kind |-> "absent", daysAgo |-> 0]

\* Lines 121-132 for one article: whether the loop skips it.  A parse
\* failure is caught and the article kept; article_date < cutoff_date means
\* more than days_back days ago.
SkipsNothing(article, days_back) == FALSE

SkippedAsOld(article, days_back) ==
    article.date.kind = "ok" /\ article.date.daysAgo > days_back

RECURSIVE FilterLoop(_, _, _, _, _)
\* The loop over results["news_results"] from article i on, news_articles
\* being what it has appended so far.
FilterLoop(news, i, news_articles, max_results, days_back) ==
    IF i > Len(news) THEN news_articles
    ELSE IF Len(news_articles) >= max_results THEN news_articles
    ELSE IF SkippedAsOld(news[i], days_back)
         THEN FilterLoop(news, i + 1, news_articles, max_results, days_back)
         ELSE FilterLoop(news, i + 1, Append(news_articles, news[i]),
                         max_results, days_back)

NewsSuccess(query, max_results, days_back, news, articles) ==
    [status |-> "success",
     message |-> <<"Successfully retrieved news for query: ">> \o query,
     articles |-> articles,
     metadata |-> [query |-> query, parsed_query |-> parse_query(query),
                   max_results |-> max_results, days_back |-> days_back,
                   total_results_available |-> Len(news),
                   total_results_returned |-> Len(articles)]]

NewsErrorNoKey(query, max_results, days_back) ==
    [status |-> "error",
     message |-> <<"API key is missing. Please check your environment configuration.">>,
     articles |-> <<>>,
     metadata |-> [query |-> query, parsed_query |-> parse_query(query),
                   max_results |-> max_results, days_back |-> days_back]]

NewsErrorNoResults(query, max_results, days_back) ==
    [status |-> "error",
     message |-> <<"No news results found for query: ">> \o query,
     articles |-> <<>>,
     metadata |-> [query |-> query, parsed_query |-> parse_query(query),
                   max_results |-> max_results, days_back |-> days_back]]

NewsErrorRaised(query, max_results, days_back) ==
    [status |-> "error",
     message |-> <<"Error fetching news for query '">> \o query
                     \o <<"': provider error">>,
     articles |-> <<>>,
     metadata |-> [query |-> query,
                   max_results |-> max_results, days_back |-> days_back]]

\* if not params["api_key"]
ApiKeyNeverMissing(keySet) == FALSE

ApiKeyMissing(keySet) == ~keySet

\* fetch_news as a function of the store it finds, of the environment
\* (SERP_API_KEY set or not) and of what the provider would answer: the
\* returned envelope, the store after the call, and what the call did.
FetchNewsCall(store, up, keySet, user_id, query, max_results, days_back, out) ==
    LET key == NewsKey(user_id, query, max_results, days_back)
        cached == RedisGet(store, up, key)
        quiet(result) == [result |-> result, store |-> store, hit |-> FALSE,
                          provider |-> 1, stored |-> FALSE]
    IN  IF cached.some
        THEN [result |-> cached.val, store |-> store, hit |-> TRUE,
              provider |-> 0, stored |-> FALSE]
        ELSE IF ApiKeyMissing(keySet)
        THEN [result |-> NewsErrorNoKey(query, max_results, days_back),
              store |-> store, hit |-> FALSE, provider |-> 0,
              stored |-> FALSE]
        ELSE IF out.raised
        THEN quiet(NewsErrorRaised(query, max_results, days_back))
        ELSE IF out.news = <<>>
        THEN quiet(NewsErrorNoResults(query, max_results, days_back))
        ELSE LET articles == FilterLoop(out.news, 1, <<>>, max_results,
                                        days_back)
                 result == NewsSuccess(query, max_results, days_back,
                                       out.news, articles)
             IN  [result |-> result,
                  store |-> RedisStored(store, up, key, result),
                  hit |-> FALSE, provider |-> 1, stored |-> up]

\* The calls made in the news runs: a base call, the same with another
\* max_results, with another days_back, with another query, and with
\* another user id.
NewsCalls ==
    {<<<<"u">>, <<"y">>, 2, 7>>,
     <<<<"u">>, <<"y">>, 1, 7>>,
     <<<<"u">>, <<"y">>, 2, 3>>,
     <<<<"u">>, <<"x", ":news:", "y">>, 2, 7>>,
     <<<<"u", ":news:", "x">>, <<"y">>, 2, 7>>}

\* What the provider may answer: an exception, no news_results, or one of
\* two lists of articles.
ProviderNews ==
    {<<>>,
     <<[title |-> "a", link |-> "http://a", date |-> DateOk(2)],
       [title |-> "b", link |-> "http://b", date |-> DateOk(10)],
       [title |-> "c", link |-> "http://c", date |-> DateBad]>>,
     <<[title |-> "d", link |-> "http://d", date |-> DateOk(7)],
       [title |-> "e", link |-> "http://e", date |-> DateAbsent],
       [title |-> "a", link |-> "http://a", date |-> DateOk(2)]>>}

ProviderOutcomes ==
    {[raised |-> FALSE, news |-> n] : n \in ProviderNews}
        \cup {[raised |-> TRUE, news |-> <<>>]}

\* One fetch_news call, from its first line to its return.
FetchNews ==
    \E c \in NewsCalls, out \in ProviderOutcomes :
        LET key == NewsKey(c[1], c[2], c[3], c[4])
            r == FetchNewsCall(redis, redisUp, serpKeySet,
                               c[1], c[2], c[3], c[4], out)
        IN  /\ redis' = r.store
            /\ newsWriter' = IF r.stored
                             THEN [k \in DOMAIN newsWriter \cup {key} |->
                                      IF k = key THEN c ELSE newsWriter[k]]
                             ELSE newsWriter
            /\ newsLast' = [made |-> TRUE, call |-> c, result |-> r.result,
                            hit |-> r.hit, provider |-> r.provider,
                            stored |-> r.stored, keySet |-> serpKeySet,
                            news |-> IF r.provider = 1 /\ ~out.raised
                                     THEN out.news ELSE <<>>,
                            raised |-> r.provider = 1 /\ out.raised,
                            writer |-> IF r.hit THEN newsWriter[key] ELSE c]
            /\ UNCHANGED <<redisUp, serpKeySet, qaLog, selVars, histVars, resVars, scrVars, synLog, routeLast,
                       chatTurns, serperVars, loopVars, cacheLast, apiVars>>

\* The process is restarted with SERP_API_KEY set, or without it.
Reconfigure ==
    /\ serpKeySet' = ~serpKeySet
    /\ UNCHANGED <<redis, redisUp, newsLast, newsWriter, qaLog, selVars, histVars, resVars, scrVars, synLog, routeLast,
                       chatTurns, serperVars, loopVars, cacheLast, apiVars>>

InitNews ==
    /\ redis = <<>>
    /\ redisUp = TRUE
    /\ qaLog = <<>>
    /\ selStrategy = <<>>
    /\ selOriginal = <<>>
    /\ selResult = <<>>
    /\ selPrev = <<>>
    /\ selCalls = 0
    /\ serpKeySet = TRUE
    /\ newsLast = NoCall
    /\ newsWriter = <<>>
    /\ histLast = NoOp
    /\ histSent = 0
    /\ resPc = "idle"
    /\ resRun = NoRun
    /\ resResult = NoCall
    /\ scrLast = NoCall
    /\ robots_txt_cache = <<>>
    /\ synLog = <<>>
    /\ routeLast = NoCall
    /\ chatTurns = <<>>
    /\ SERPER_API_KEYS = <<"key 1">>
    /\ serperKeyIndex = 0
    /\ serperLog = <<>>
    /\ searching = {}
    /\ loopRequests = <<>>
    /\ loopHeld = "none"
    /\ cacheLast = NoCall
    /\ endpointRequests = <<>>
    /\ genLast = NoCall
    /\ keyLast = <<>>

NextNews == FetchNews \/ Reconfigure \/ Expire \/ RedisFail \/ RedisRecover

SpecNews == InitNews /\ [][NextNews]_vars


\* The articles of a provider answer the date rule lets through: dated no
\* more than days_back days before now, or with a date that cannot be read.
PassesDateRule(article, days_back) ==
    \/ article.date.kind # "ok"
    \/ article.date.daysAgo <= days_back

Passing(news, days_back) ==
    SelectSeq(news, LAMBDA a : PassesDateRule(a, days_back))

FirstN(s, n) == SubSeq(s, 1, IF Len(s) < n THEN Len(s) ELSE n)

\* The last call got a non-empty answer from the provider.
NewsFiltered ==
    newsLast.made /\ newsLast.provider = 1 /\ newsLast.news # <<>>

\* C5 as stated: of a provider answer, fetch_news keeps exactly the
\* articles dated no more than days_back days before now and those whose
\* date cannot be parsed or is missing.
C5_AsStated ==
    NewsFiltered =>
        newsLast.result.articles = Passing(newsLast.news, newsLast.call[4])

\* C5: of a provider answer, fetch_news returns, in the provider's order,
\* the first max_results of the articles that are dated no more than
\* days_back days before now or whose date cannot be parsed or is missing;
\* an article dated earlier than that is never returned.
C5_DateFilterUpToMax ==
    NewsFiltered =>
        /\ newsLast.result.status = "success"
        /\ newsLast.result.articles =
               FirstN(Passing(newsLast.news, newsLast.call[4]),
                      newsLast.call[3])

\* days_back = 7 and an answer with an article 10 days old, one 2 days old
\* and one with an unparseable date: the last two are returned.
C5_Witness ==
    /\ NewsFiltered
    /\ newsLast.call[4] = 7
    /\ \E i \in 1..Len(newsLast.news) : newsLast.news[i].date = DateOk(10)
    /\ newsLast.result.articles =
           <<[title |-> "a", link |-> "http://a", date |-> DateOk(2)],
             [title |-> "c", link |-> "http://c", date |-> DateBad]>>

\* C6 as stated: whenever the API key is not configured or the provider
\* returns no results, fetch_news returns status error with an empty
\* article list, whatever the cache holds.
C6_AsStated ==
    (newsLast.made /\ (~newsLast.keySet
                          \/ (newsLast.provider = 1 /\ newsLast.news = <<>>)))
        => /\ newsLast.result.status = "error"
           /\ newsLast.result.articles = <<>>

\* C6: a fetch_news call that finds no cached result for its key returns
\* status error with an empty article list whenever the API key is not
\* configured, and then without asking the provider, or the provider
\* returns no results; a call that finds a cached result returns it
\* whether the API key is configured or not.
C6_ErrorsOnCacheMiss ==
    newsLast.made =>
        /\ (~newsLast.hit /\ ~newsLast.keySet)
               => /\ newsLast.result.status = "error"
                  /\ newsLast.result.articles = <<>>
                  /\ newsLast.provider = 0
        /\ (~newsLast.hit /\ newsLast.provider = 1 /\ newsLast.news = <<>>)
               => /\ newsLast.result.status = "error"
                  /\ newsLast.result.articles = <<>>
        /\ newsLast.hit => newsLast.provider = 0

\* A call without the API key after the cache entry of its key is gone.
C6_Witness ==
    /\ newsLast.made /\ ~newsLast.keySet /\ ~newsLast.hit
    /\ newsLast.result.status = "error"
    /\ newsWriter # <<>>

\* C7 as stated: a cache hit returns an entry written by a call with the
\* same user id, query, max_results and days_back, and no error response
\* is in the cache.
C7_AsStated ==
    /\ (newsLast.made /\ newsLast.hit) => newsLast.writer = newsLast.call
    /\ \A k \in DOMAIN redis : JsonLoads(redis[k]).status = "success"


(***************************************************************************)
(* scripts/web/chatEngine.py: the conversation history                     *)
(* routers/app.py: GET and DELETE /chat/history                            *)
(*                                                                         *)
(* A message is its role and its content; a content is its text and the    *)
(* number of characters of the text.  The timestamp of a message, which    *)
(* no code reads, is left out.                                             *)
(***************************************************************************)
MAX_TOKEN_COUNT == 4000

\* history[-6:] and history[:-6]
RecentCount == 6

HistoryKey(user_id) == <<"chat_history:">> \o user_id

\* conversation_user_id = f"{user_id}:{session_id}"
ConversationId(user_id, session_id) == user_id \o <<":">> \o session_id

\* get_conversation_history: the stored list, [] when nothing can be read
\* or the stored list is empty.
get_conversation_history(store, up, user_id) ==
    LET history == RedisGet(store, up, HistoryKey(user_id))
    IN  IF history.some THEN history.val ELSE <<>>

RECURSIVE TotalChars(_, _)
TotalChars(messages, i) ==
    IF i > Len(messages) THEN 0
    ELSE messages[i].content.chars + TotalChars(messages, i + 1)

estimate_token_count(messages) == TotalChars(messages, 1) \div 4

\* What the model may answer to a summarisation request: a summary (its
\* text and length) or an exception.
SummaryOutcomes ==
    {[ok |-> TRUE, text |-> "summary-S", chars |-> 120],
     [ok |-> FALSE, text |-> "timeout", chars |-> 0]}

summarize_conversation_history(history, out) ==
    IF out.ok
    THEN [role |-> "system",
          content |-> [text |-> <<"Previous conversation summary: ", out.text>>,
                       chars |-> 31 + out.chars]]
    ELSE [role |-> "system",
          content |-> [text |-> <<"Previous conversation summary: ",
                                  "User and assistant discussed various topics.">>,
                       chars |-> 75]]

\* history[-n:]
LastFive(history, n) ==
    IF Len(history) <= 5 THEN history
    ELSE SubSeq(history, Len(history) - 4, Len(history))

Last(history, n) ==
    IF Len(history) <= n THEN history
    ELSE SubSeq(history, Len(history) - n + 1, Len(history))

\* history[:-n]
AllButLast(history, n) ==
    IF Len(history) <= n THEN <<>>
    ELSE SubSeq(history, 1, Len(history) - n)

HistoryNewOnly(read, new_messages, out) == new_messages

\* update_conversation_history, from history.extend to the list handed to
\* the store: the history read, extended and, over the token limit,
\* compacted.
HistoryToStore(read, new_messages, out) ==
    LET extended == read \o new_messages
        exceeded == estimate_token_count(extended) > MAX_TOKEN_COUNT
        recent_messages == Last(extended, RecentCount)
        older_messages == AllButLast(extended, RecentCount)
    IN  IF exceeded
        THEN <<summarize_conversation_history(older_messages, out)>>
                 \o recent_messages
        ELSE extended

\* update_conversation_history: what it read, the extended history, the
\* list it hands to the store, and the store after the call.
update_conversation_history(store, up, user_id, new_messages, out) ==
    LET read == get_conversation_history(store, up, user_id)
        extended == read \o new_messages
        exceeded == estimate_token_count(extended) > MAX_TOKEN_COUNT
        history == HistoryToStore(read, new_messages, out)
    IN  [read |-> read, extended |-> extended, exceeded |-> exceeded,
         written |-> history, stored |-> up,
         store |-> RedisStored(store, up, HistoryKey(user_id), history)]

MaxMessages == 8

\* The length of a message text, in characters.
ContentChars == {4, 8002}

TheConversation == ConversationId(<<"u1">>, <<"s1">>)

\* chat sends the user's message, then the assistant's answer:
\* update_conversation_history(user_id, [message]).
ChatUpdate ==
    \E chars \in ContentChars, out \in SummaryOutcomes :
        LET message == [role |-> IF histSent % 2 = 0 THEN "user"
                                 ELSE "assistant",
                        content |-> [text |-> <<"m", histSent + 1>>,
                                     chars |-> chars]]
            r == update_conversation_history(redis, redisUp, TheConversation,
                                             <<message>>, out)
        IN  /\ histSent < MaxMessages
            /\ histSent' = IF r.stored THEN histSent + 1 ELSE histSent
            /\ redis' = r.store
            /\ histLast' = [made |-> TRUE, op |-> "update", after |-> histLast.op,
                            read |-> r.read, extended |-> r.extended,
                            exceeded |-> r.exceeded, written |-> r.written,
                            stored |-> r.stored, history |-> <<>>]
            /\ UNCHANGED <<redisUp, qaLog, selVars, newsVars, resVars, scrVars, synLog, routeLast,
                       chatTurns, serperVars, loopVars, cacheLast, apiVars>>

\* DELETE /chat/history: update_conversation_history(conversation_user_id,
\* []), then the success response.
clear_chat_history ==
    \E out \in SummaryOutcomes :
        LET r == update_conversation_history(redis, redisUp, TheConversation,
                                             <<>>, out)
        IN  /\ redis' = r.store
            /\ histLast' = [made |-> TRUE, op |-> "clear", after |-> histLast.op,
                            read |-> r.read, extended |-> r.extended,
                            exceeded |-> r.exceeded, written |-> r.written,
                            stored |-> r.stored, history |-> <<>>]
            /\ UNCHANGED <<redisUp, histSent, qaLog, selVars, newsVars, resVars, scrVars, synLog, routeLast,
                       chatTurns, serperVars, loopVars, cacheLast, apiVars>>

\* GET /chat/history: the history of the conversation.
get_chat_history ==
    LET history == get_conversation_history(redis, redisUp, TheConversation)
    IN  /\ histLast' = [made |-> TRUE, op |-> "get", after |-> histLast.op,
                        read |-> history, extended |-> <<>>,
                        exceeded |-> FALSE, written |-> <<>>,
                        stored |-> FALSE, history |-> history]
        /\ UNCHANGED <<redis, redisUp, histSent, qaLog, selVars, newsVars, resVars, scrVars, synLog, routeLast,
                       chatTurns, serperVars, loopVars, cacheLast, apiVars>>

InitHistory ==
    /\ redis = <<>>
    /\ redisUp = TRUE
    /\ qaLog = <<>>
    /\ selStrategy = <<>>
    /\ selOriginal = <<>>
    /\ selResult = <<>>
    /\ selPrev = <<>>
    /\ selCalls = 0
    /\ serpKeySet = TRUE
    /\ newsLast = NoCall
    /\ newsWriter = <<>>
    /\ histLast = NoOp
    /\ histSent = 0
    /\ resPc = "idle"
    /\ resRun = NoRun
    /\ resResult = NoCall
    /\ scrLast = NoCall
    /\ robots_txt_cache = <<>>
    /\ synLog = <<>>
    /\ routeLast = NoCall
    /\ chatTurns = <<>>
    /\ SERPER_API_KEYS = <<"key 1">>
    /\ serperKeyIndex = 0
    /\ serperLog = <<>>
    /\ searching = {}
    /\ loopRequests = <<>>
    /\ loopHeld = "none"
    /\ cacheLast = NoCall
    /\ endpointRequests = <<>>
    /\ genLast = NoCall
    /\ keyLast = <<>>

NextHistory ==
    \/ ChatUpdate
    \/ clear_chat_history
    \/ get_chat_history
    \/ Expire
    \/ RedisFail
    \/ RedisRecover

SpecHistory == InitHistory /\ [][NextHistory]_vars


\* The last operation ran update_conversation_history and the extended
\* history exceeded the token limit.
Compacted ==
    histLast.op \in {"update", "clear"} /\ histLast.exceeded

IsSummaryMessage(m) ==
    /\ m.role = "system"
    /\ m.content.text[1] = "Previous conversation summary: "

\* C8 as stated: when the extended history exceeds 4000 estimated tokens,
\* the history written back is one leading system summary message followed
\* by exactly the 6 most recent messages, verbatim and in order.
C8_AsStated ==
    Compacted =>
        /\ Len(histLast.written) = 7
        /\ IsSummaryMessage(histLast.written[1])
        /\ SubSeq(histLast.written, 2, 7) =
               SubSeq(histLast.extended, Len(histLast.extended) - 5,
                      Len(histLast.extended))

\* C8: when the extended history exceeds 4000 estimated tokens (total
\* content characters // 4), the history handed to the store is one
\* leading system summary message followed by the last 6 messages of the
\* extended history, or by all of them when it has fewer than 6, verbatim
\* and in their order.
C8_SummaryThenRecent ==
    Compacted =>
        LET n == Len(histLast.extended)
            kept == IF n < 6 THEN n ELSE 6
        IN  /\ TotalChars(histLast.extended, 1) \div 4 > 4000
            /\ Len(histLast.written) = 1 + kept
            /\ IsSummaryMessage(histLast.written[1])
            /\ \A i \in 1..kept :
                   histLast.written[1 + i] = histLast.extended[n - kept + i]

\* A seventh message takes a history over the limit: the first message is
\* summarised away and the other six are written back.
C8_Witness ==
    /\ histLast.op = "update"
    /\ histLast.exceeded
    /\ histLast.stored
    /\ Len(histLast.extended) = 7
    /\ Len(histLast.written) = 7
    /\ histLast.written[7] = histLast.extended[7]

\* C9 as stated: a get that immediately follows the clearing of the
\* conversation returns an empty list.
C9_AsStated ==
    (histLast.op = "get" /\ histLast.after = "clear")
        => histLast.history = <<>>


(***************************************************************************)
(* scripts/web/web.py: perform_research                                    *)
(*                                                                         *)
(* One run of perform_research is followed from await to await.  The       *)
(* operations it calls are represented by the envelopes they return; their *)
(* cache traffic is in the specifications of those operations.  A field    *)
(* of a source that may be missing or None is an option value.             *)
(***************************************************************************)
NEWS_KEYWORDS ==
    {"latest", "recent", "breaking", "news", "today", "current", "update",
     "live", "newest", "headline", "ongoing", "2026"}

\* any(term in intent.lower() for term in NEWS_KEYWORDS): a keyword occurs
\* inside a word of the intent ("delivery" holds "live"), or "this week" or
\* "this month" occurs as two words.
IsNewsIntent(intent) ==
    \/ \E k \in 1..Len(intent) :
           \/ Lower(intent[k]) \in NEWS_KEYWORDS
           \/ Lower(intent[k]) \in {"newsletter", "delivery"}
    \/ \E k \in 1..Len(intent) - 1 :
           /\ Lower(intent[k]) = "this"
           /\ Lower(intent[k + 1]) \in {"week", "month"}

\* days_back = 3 if depth == "quick" else (7 if depth == "standard" else 30)
DaysBackSeven(depth) == 7

DaysBack(depth) ==
    IF depth = "quick" THEN 3 ELSE IF depth = "standard" THEN 7 ELSE 30

\* if value: for an optional text.
Truthy(o) == o.some /\ o.val # <<>>

NewsSource(article) ==
    [name |-> article.title,
     url |-> article.link,
     snippet |-> Some(<<article.title, " - ">>),
     content |-> Nothing,
     published_date |-> IF article.date.kind = "absent" THEN Nothing
                        ELSE Some(article.date),
     source_type |-> "news",
     summarized_content |-> Nothing,
     analysis |-> Nothing]

WebSource(context) ==
    [name |-> context.name,
     url |-> context.url,
     snippet |-> Some(context.snippet),
     content |-> Nothing,
     published_date |-> Nothing,
     source_type |-> "web",
     summarized_content |-> Nothing,
     analysis |-> Nothing]

\* The list comprehensions that turn articles and contexts into sources.
NewsSources(articles) == [k \in 1..Len(articles) |-> NewsSource(articles[k])]

WebSources(contexts) == [k \in 1..Len(contexts) |-> WebSource(contexts[k])]

RECURSIVE IndexFrom(_, _, _)
\* sources.index(source): the position of the first element equal to it.
IndexFrom(sources, source, j) ==
    IF sources[j] = source THEN j ELSE IndexFrom(sources, source, j + 1)

IndexOfFirst(sources, p) == 1

IndexOf(sources, p) == IndexFrom(sources, sources[p], 1)

RECURSIVE WebPositions(_, _)
\* The positions in sources of the web sources, from position j on.
WebPositions(sources, j) ==
    IF j > Len(sources) THEN <<>>
    ELSE (IF sources[j].source_type = "web" THEN <<j>> ELSE <<>>)
             \o WebPositions(sources, j + 1)

\* web_sources[:3 if depth == "standard" else 5], as positions in sources.
TopWebSourcesAll(sources, depth) == WebPositions(sources, 1)

TopWebSources(sources, depth) ==
    FirstN(WebPositions(sources, 1), IF depth = "standard" THEN 3 ELSE 5)

\* content = source.get("content") or source.get("summarized_content") or
\* source.get("snippet"), tested by if content:
HasContentToAnalyze(source) ==
    Truthy(source.content) \/ Truthy(source.summarized_content)
        \/ Truthy(source.snippet)

RECURSIVE NextToAnalyze(_, _)
\* The first position >= p among sources[:5] whose source has content to
\* analyze, 0 when there is none.
NextToAnalyze(sources, p) ==
    IF p > Len(sources) \/ p > 5 THEN 0
    ELSE IF HasContentToAnalyze(sources[p]) THEN p
    ELSE NextToAnalyze(sources, p + 1)

\* What search_web returns: the dict with the contexts of a 200 response,
\* or [] after another status or an exception.
Context(id, snippet) ==
    [name |-> id, url |-> "http://" \o id, snippet |-> snippet]

\* An organic result whose link is the empty string.
ContextNoLink(id, snippet) ==
    [name |-> id, url |-> "", snippet |-> snippet]

SearchContexts ==
    LET c(id) == Context(id, <<"about", id>>)
    IN  {<<>>,
         <<c("c1"), Context("c2", <<>>)>>,
         <<ContextNoLink("c0", <<"about", "c0">>), c("c1")>>,
         <<c("c1"), c("c1"), c("c3"), c("c4"), c("c5")>>,
         <<c("c1"), c("c2"), c("c3"), c("c4"), c("c5"), c("c6")>>}

SearchOutcomes ==
    {[ok |-> TRUE, contexts |-> l] : l \in SearchContexts}
        \cup {[ok |-> FALSE, contexts |-> <<>>]}

\* What the wait on scrape_webpage ends with: a success envelope, an error
\* envelope, or the 60 s timeout.
ScrapeOutcomes == {"success", "error", "timeout"}

\* What analyze_query returns.
ResearchAnalyses ==
    {QaSuccess(t) : t \in AnalysisTexts} \cup {QaError(e) : e \in GenErrors}

\* What fetch_news(user_id, query, days_back=days_back) returns when it
\* builds its answer (a cached answer is one of these).
ResearchNews(user_id, query, days_back) ==
    {FetchNewsCall(<<>>, TRUE, TRUE, user_id, query, 20, days_back, out).result :
         out \in {o \in ProviderOutcomes : o.raised \/ Len(o.news) = 3}}

\* What synthesize_information returns.
SynthesisSuccess(sources, query) ==
    [status |-> "success",
     message |-> "Information synthesis completed",
     synthesized_answer |-> Some(<<"synthesis">>),
     metadata |-> Some([query |-> query, num_sources |-> Len(sources),
                        source_urls |->
                            SelectSeq([k \in 1..Len(sources) |->
                                           sources[k].url],
                                      LAMBDA url : url # ""),
                        contradictions |-> Nothing,
                        additional_research_suggestions |-> Nothing])]

SynthesisError ==
    [status |-> "error",
     message |-> "Error synthesizing information: timeout",
     synthesized_answer |-> Nothing,
     metadata |-> Nothing]


Depths == {"quick", "standard", "deep"}

ResearchUser == <<"u1">>

ResearchQuery == <<"ai", "news", "today">>

Calling(run, pc) ==
    [pc |-> pc, run |-> [run EXCEPT !.calls = Append(@, pc)],
     result |-> NoCall]

\* Step 6 on: the error for an empty source list, or the synthesis call.
AfterContent(run) ==
    IF run.sources = <<>>
    THEN [pc |-> "done", run |-> run,
          result |-> Returned([status |-> "error",
                               message |-> <<"No relevant sources found for the query">>,
                               result |-> Nothing])]
    ELSE Calling(run, "synthesize_information")

\* Step 3 taken again (the mutant of AfterScrape).
GatherAgain(run) == Calling(run, "search_web")

\* Step 5 on: for deep research, the first analyze_content call.
AfterScrape(run) ==
    IF run.depth = "deep" /\ NextToAnalyze(run.sources, 1) # 0
    THEN Calling([run EXCEPT !.i = NextToAnalyze(run.sources, 1)],
                 "analyze_content")
    ELSE AfterContent(run)

\* Step 4 on: for deep and standard research, the first scrape_webpage call.
AfterGather(run) ==
    IF run.depth \in {"deep", "standard"}
    THEN LET top == TopWebSources(run.sources, run.depth)
         IN  IF top # <<>>
             THEN Calling([run EXCEPT !.top = top, !.i = 1], "scrape_webpage")
             ELSE AfterScrape(run)
    ELSE AfterScrape(run)

Report(run, synthesis) ==
    [status |-> "success",
     message |-> <<"Research completed for query: ">> \o run.query,
     result |-> Some(
         [query |-> run.query,
          query_analysis |-> run.query_analysis.val.analysis,
          answer |-> synthesis.synthesized_answer,
          sources |-> run.sources,
          research_depth |-> run.depth,
          additional_info |->
              [news_sources |->
                   Len(SelectSeq(run.sources,
                                 LAMBDA x : x.source_type = "news")),
               web_sources |->
                   Len(SelectSeq(run.sources,
                                 LAMBDA x : x.source_type = "web")),
               contradictions |-> synthesis.metadata.val.contradictions,
               additional_research_suggestions |->
                   synthesis.metadata.val.additional_research_suggestions]])]

Proceed(next) ==
    /\ resPc' = next.pc
    /\ resRun' = next.run
    /\ resResult' = next.result
    /\ UNCHANGED <<redis, redisUp, qaLog, selVars, newsVars, histVars, scrVars, synLog, routeLast,
                       chatTurns, serperVars, loopVars, cacheLast, apiVars>>

\* The return of lines 211-215, taken when analyze_query reports an error.
AnalysisErrorIgnored(run, qa) == Calling(run, "search_web")

AnalysisErrorReturn(run, qa) ==
    [pc |-> "done", run |-> run,
     result |-> Returned([status |-> "error",
                          message |-> <<"Error analyzing query: ">>
                                          \o qa.message,
                          result |-> Nothing])]

\* perform_research is called: Step 1 issues analyze_query.
ResearchStart ==
    /\ resPc \in {"idle", "done"}
    /\ \E depth \in Depths :
           Proceed(Calling([NoRun EXCEPT !.depth = depth,
                                         !.original = ResearchQuery,
                                         !.query = ResearchQuery],
                           "analyze_query"))

\* analyze_query returns: the error return, or the choice of the search
\* query and Step 3 up to the next call.
AnalyzeQueryReturns ==
    /\ resPc = "analyze_query"
    /\ \E qa \in ResearchAnalyses :
           LET run == [resRun EXCEPT !.query_analysis = Some(qa)]
           IN  IF qa.status = "error"
               THEN Proceed(AnalysisErrorReturn(run, qa))
               ELSE LET search_strategy == qa.analysis.search_strategy
                        query == IF search_strategy # <<>>
                                 THEN select_best_search_query(
                                          search_strategy, run.original)
                                 ELSE run.original
                        is_news_query == IsNewsIntent(qa.analysis.intent)
                    IN  IF is_news_query \/ run.depth = "deep"
                        THEN Proceed(Calling(
                                 [run EXCEPT !.query = query,
                                             !.days_back = DaysBack(run.depth)],
                                 "fetch_news"))
                        ELSE Proceed(Calling([run EXCEPT !.query = query],
                                             "search_web"))

\* fetch_news returns: its articles become sources; search_web is called.
FetchNewsReturns ==
    /\ resPc = "fetch_news"
    /\ \E news_results \in ResearchNews(ResearchUser, resRun.query,
                                        resRun.days_back) :
           Proceed(Calling(
               [resRun EXCEPT !.sources =
                    IF news_results.status = "success"
                    THEN @ \o NewsSources(news_results.articles)
                    ELSE @],
               "search_web"))

\* search_web returns: search_results.get("contexts") raises on the list
\* [], the contexts of a dict become sources, and Step 4 starts.
SearchWebReturns ==
    /\ resPc = "search_web"
    /\ \E search_results \in SearchOutcomes :
           IF ~search_results.ok
           THEN Proceed([pc |-> "done", run |-> resRun,
                         result |-> Raised("AttributeError")])
           ELSE LET sources == resRun.sources
                               \o WebSources(search_results.contexts)
                IN  Proceed(AfterGather([resRun EXCEPT
                                            !.sources = sources,
                                            !.gathered = sources]))


\* The wait on scrape_webpage for top_web_sources[i] ends: a success sets
\* summarized_content on sources[source_idx]; the loop goes on or Step 5
\* starts.
ScrapeWebpageReturns ==
    /\ resPc = "scrape_webpage"
    /\ \E outcome \in ScrapeOutcomes :
           LET p == resRun.top[resRun.i]
               source == resRun.sources[p]
               source_idx == IndexOf(resRun.sources, p)
               run == [resRun EXCEPT
                          !.sources =
                              IF outcome = "success"
                              THEN [@ EXCEPT ![source_idx].summarized_content =
                                        Some(<<"summary of", source.url>>)]
                              ELSE @,
                          !.results =
                              Append(@, [url |-> source.url,
                                         success |-> outcome = "success",
                                         reason |-> outcome])]
           IN  IF resRun.i < Len(resRun.top)
               THEN Proceed(Calling([run EXCEPT !.i = @ + 1],
                                    "scrape_webpage"))
               ELSE Proceed(AfterScrape(run))

\* analyze_content returns for mixed_sources[i]: a success sets analysis on
\* sources[source_idx]; the loop goes on to the next source with content,
\* or Step 6 starts.
AnalyzeContentReturns ==
    /\ resPc = "analyze_content"
    /\ \E success \in BOOLEAN :
           LET source_idx == IndexOf(resRun.sources, resRun.i)
               run == [resRun EXCEPT
                          !.sources =
                              IF success
                              THEN [@ EXCEPT ![source_idx].analysis =
                                        Some(<<"scores">>)]
                              ELSE @]
               next == NextToAnalyze(run.sources, resRun.i + 1)
           IN  IF next # 0
               THEN Proceed(Calling([run EXCEPT !.i = next],
                                    "analyze_content"))
               ELSE Proceed(AfterContent(run))

\* synthesize_information returns: Step 7 builds the report; on the error
\* envelope, whose metadata is None, .get("metadata", {}).get(...) raises.
SynthesizeInformationReturns ==
    /\ resPc = "synthesize_information"
    /\ \E synthesis_result \in {SynthesisSuccess(resRun.sources, resRun.query),
                                SynthesisError} :
           Proceed([pc |-> "done",
                    run |-> [resRun EXCEPT
                                !.synthesis_result = Some(synthesis_result)],
                    result |-> IF synthesis_result.metadata.some
                               THEN Returned(Report(resRun, synthesis_result))
                               ELSE Raised("AttributeError")])

InitResearch ==
    /\ redis = <<>>
    /\ redisUp = TRUE
    /\ qaLog = <<>>
    /\ selStrategy = <<>>
    /\ selOriginal = <<>>
    /\ selResult = <<>>
    /\ selPrev = <<>>
    /\ selCalls = 0
    /\ serpKeySet = TRUE
    /\ newsLast = NoCall
    /\ newsWriter = <<>>
    /\ histLast = NoOp
    /\ histSent = 0
    /\ resPc = "idle"
    /\ resRun = NoRun
    /\ resResult = NoCall
    /\ scrLast = NoCall
    /\ robots_txt_cache = <<>>
    /\ synLog = <<>>
    /\ routeLast = NoCall
    /\ chatTurns = <<>>
    /\ SERPER_API_KEYS = <<"key 1">>
    /\ serperKeyIndex = 0
    /\ serperLog = <<>>
    /\ searching = {}
    /\ loopRequests = <<>>
    /\ loopHeld = "none"
    /\ cacheLast = NoCall
    /\ endpointRequests = <<>>
    /\ genLast = NoCall
    /\ keyLast = <<>>

NextResearch ==
    \/ ResearchStart
    \/ AnalyzeQueryReturns
    \/ FetchNewsReturns
    \/ SearchWebReturns
    \/ ScrapeWebpageReturns
    \/ AnalyzeContentReturns
    \/ SynthesizeInformationReturns

SpecResearch == InitResearch /\ [][NextResearch]_vars


\* A finished deep run whose scrape stage selected 5 web sources, 3 of the
\* scrapes succeeding and 2 timing out, and whose synthesis call returned a
\* synthesis.
ScrapedThreeOfFive ==
    /\ resPc = "done"
    /\ resRun.depth = "deep"
    /\ Len(resRun.top) = 5
    /\ Len(resRun.results) = 5
    /\ Cardinality({k \in 1..5 : resRun.results[k].success}) = 3
    /\ Cardinality({k \in 1..5 : resRun.results[k].reason = "timeout"}) = 2
    /\ resRun.synthesis_result.some
    /\ resRun.synthesis_result.val.status = "success"

\* A source without what the scrape and analysis stages add to it.
AsGathered(source) ==
    [source EXCEPT !.summarized_content = Nothing, !.analysis = Nothing]

CallCount(op) ==
    Cardinality({k \in 1..Len(resRun.calls) : resRun.calls[k] = op})

\* The analysis of the run succeeded (the run passed Step 1).
PassedAnalyze ==
    /\ resRun.query_analysis.some
    /\ resRun.query_analysis.val.status = "success"

\* C11 as stated: a run in which neither the news fetch nor the web search
\* yields a source, by empty result sets or by failing, returns status
\* error with result None and does not raise, for every depth.
C11_AsStated ==
    (resPc = "done" /\ PassedAnalyze /\ resRun.sources = <<>>)
        => /\ ~resResult.raised
           /\ resResult.value.status = "error"
           /\ resResult.value.result = Nothing

\* C15: when analyze_query returns status error, perform_research ends at
\* once with an error result whose result is None, and the run issues no
\* news fetch, web search, scrape, content analysis or synthesis call.
C15_AnalyzeFailureIsTerminal ==
    (resRun.query_analysis.some
         /\ resRun.query_analysis.val.status = "error")
        => /\ resPc = "done"
           /\ ~resResult.raised
           /\ resResult.value.status = "error"
           /\ resResult.value.result = Nothing
           /\ resRun.calls = <<"analyze_query">>

C15_Witness ==
    /\ resPc = "done"
    /\ resRun.query_analysis.some
    /\ resRun.query_analysis.val.status = "error"
    /\ resRun.depth = "deep"
    /\ resResult.value.message[1] = "Error analyzing query: "

GatheredWeb == SelectSeq(resRun.gathered, LAMBDA x : x.source_type = "web")

\* C17: a quick run scrapes no page and analyzes no content; a standard
\* run scrapes at most the first 3 web-type sources and analyzes no
\* content; a deep run scrapes at most the first 5 web-type sources and
\* analyzes the content of at most the first 5 sources of the whole list.
C17_DepthBoundsEnrichment ==
    LET scrapeLimit == CASE resRun.depth = "standard" -> 3
                         [] resRun.depth = "deep" -> 5
                         [] OTHER -> 0
        analyzeLimit == IF resRun.depth = "deep" THEN 5 ELSE 0
    IN  /\ CallCount("scrape_webpage") <= scrapeLimit
        /\ CallCount("analyze_content") <= analyzeLimit
        /\ Len(resRun.results) <= CallCount("scrape_webpage")
        /\ \A k \in 1..Len(resRun.results) :
               resRun.results[k].url = GatheredWeb[k].url
        /\ \A j \in 1..Len(resRun.sources) :
               /\ resRun.sources[j].summarized_content.some
                      => /\ resRun.sources[j].source_type = "web"
                         /\ \E k \in 1..scrapeLimit :
                                /\ k <= Len(GatheredWeb)
                                /\ GatheredWeb[k] = resRun.gathered[j]
               /\ resRun.sources[j].analysis.some
                      => (j <= 5 /\ resRun.depth = "deep")

\* A standard run that found 6 web sources scraped the first 3 of them and
\* analyzed no content.
C17_Witness ==
    /\ resPc = "done"
    /\ resRun.depth = "standard"
    /\ Len(GatheredWeb) = 6
    /\ CallCount("scrape_webpage") = 3
    /\ CallCount("analyze_content") = 0
    /\ resRun.results[3].url = "http://c3"
    /\ ~resResult.raised

\* C18 as stated: when synthesize_information returns status error,
\* perform_research returns an envelope with status error; it neither
\* raises nor returns status success.
C18_AsStated ==
    (resPc = "done" /\ resRun.synthesis_result.some
         /\ resRun.synthesis_result.val.status = "error")
        => /\ ~resResult.raised
           /\ resResult.value.status = "error"


(***************************************************************************)
(* scripts/web/webScraper.py: scrape_webpage, summarize_pages,             *)
(* _check_robots_permission, _fetch_content, read_webpage                  *)
(*                                                                         *)
(* A page is the list of its chunks of 10000 tokens; a chunk is a string,  *)
(* " " standing for a chunk of white space.                                *)
(***************************************************************************)
\* stream_id = f"{user_google_id}:{url}"
StreamId(user_google_id, url) == user_google_id \o <<":", url>>

\* page.strip()
Strip(page) == IF page = " " THEN "" ELSE page

\* What a generation request ends with: a complete answer, an answer whose
\* finish_reason is not "stop" or whose content is empty, or an exception.
GenKinds == {"ok", "incomplete", "raise"}

ChunkNo(i) == IF i = 1 THEN "1" ELSE "2"

NoPlaceholder(chunk, i, kind) == <<"summary of " \o chunk>>

\* The summary appended for chunk i.
ChunkSummary(chunk, i, kind) ==
    CASE kind = "ok" -> <<"summary of " \o chunk>>
      [] kind = "incomplete" ->
             <<"Summary not completed for chunk " \o ChunkNo(i) \o ".">>
      [] OTHER ->
             <<"Error summarizing chunk " \o ChunkNo(i) \o ": timeout">>

RECURSIVE JoinSummaries(_, _)
\* "\n\n".join(chunk_summaries)
JoinSummaries(chunk_summaries, i) ==
    IF i > Len(chunk_summaries) THEN <<>>
    ELSE (IF i = 1 THEN <<>> ELSE <<"\n\n">>) \o chunk_summaries[i]
             \o JoinSummaries(chunk_summaries, i + 1)

\* summarize_pages: the envelope and the number of generation requests.
\* kinds[i] is how the request for chunk i ends, agg how the aggregation
\* request ends.
summarize_pages(pages, metadata, url, kinds, agg) ==
    IF pages = <<>> \/ \A i \in 1..Len(pages) : Strip(pages[i]) = ""
    THEN [result |-> [status |-> "error",
                      message |-> <<"No content retrieved from ", url>>,
                      summarized_content |-> Nothing,
                      metadata |-> metadata],
          gens |-> 0]
    ELSE LET chunk_summaries ==
                 [i \in 1..Len(pages) |-> ChunkSummary(pages[i], i, kinds[i])]
             aggregated_content == JoinSummaries(chunk_summaries, 1)
             final_summary ==
                 IF Len(chunk_summaries) > 1
                 THEN IF agg = "ok"
                      THEN <<"aggregate of">> \o aggregated_content
                      ELSE aggregated_content
                 ELSE chunk_summaries[1]
         IN  [result |-> [status |-> "success",
                          message |-> <<"Successfully summarized content from ",
                                        url, ".">>,
                          summarized_content |-> Some(final_summary),
                          metadata |-> metadata],
              gens |-> Len(pages) + (IF Len(pages) > 1 THEN 1 ELSE 0)]

ScrapeError(text, url) ==
    [status |-> "error",
     message |-> <<text, url>>,
     summarized_content |-> Nothing,
     metadata |-> Nothing]

\* What requests.get and the conversion to chunks end with: a request
\* exception (network error, timeout, 4XX/5XX), another exception
\* (parsing, markdown conversion), or the chunks of the page.
PageLists == {<<>>, <<" ">>, <<"p1">>, <<"p1", "p2">>}

FetchOutcomes ==
    {[kind |-> "request_error", pages |-> <<>>],
     [kind |-> "convert_error", pages |-> <<>>]}
        \cup {[kind |-> "ok", pages |-> ps] : ps \in PageLists}

\* Whether scrape_webpage uses what it read from the cache
\* (if cached_data:).
ScrapeHitIgnored(cached) == FALSE

ScrapeHit(cached) == cached.some

\* scrape_webpage: the envelope, the store after the call and what the
\* call did (HTTP fetches, robots.txt checks, generation requests).
ScrapeWebpageCall(store, up, user_google_id, url, fetched, kinds, agg) ==
    LET stream_id == StreamId(user_google_id, url)
        cached_data == RedisGet(store, up, stream_id)
    IN  IF ScrapeHit(cached_data)
        THEN LET r == summarize_pages(cached_data.val.pages,
                                      cached_data.val.metadata, url,
                                      kinds, agg)
             IN  [result |-> r.result, store |-> store, hit |-> TRUE,
                  fetches |-> 0, robots |-> "unchecked", gens |-> r.gens,
                  stored |-> FALSE, pages |-> cached_data.val.pages]
        ELSE IF fetched.kind # "ok"
        THEN [result |-> ScrapeError(IF fetched.kind = "request_error"
                                     THEN "Error fetching "
                                     ELSE "Error scraping ", url),
              store |-> store, hit |-> FALSE, fetches |-> 1,
              robots |-> "unchecked", gens |-> 0, stored |-> FALSE,
              pages |-> <<>>]
        ELSE LET metadata == Some([title |-> "title", url |-> url])
                 cache_payload == [pages |-> fetched.pages,
                                   metadata |-> metadata]
                 r == summarize_pages(fetched.pages, metadata, url,
                                      kinds, agg)
             IN  [result |-> r.result,
                  store |-> RedisStored(store, up, stream_id, cache_payload),
                  hit |-> FALSE, fetches |-> 1, robots |-> "unchecked",
                  gens |-> r.gens, stored |-> up, pages |-> fetched.pages]


ScrapeUser == <<"u1">>

\* Two pages of one site.
ScrapeUrls == {"http://a/p", "http://a/q"}

\* base_url = f"{parsed_url.scheme}://{parsed_url.netloc}"
Origin(url) == "http://a"

\* What the fetch of robots.txt ends with: a status other than 200 or an
\* exception, or a file that allows or disallows the bots the pages of the
\* origin.
RobotsAnswers == {"unavailable", "allow", "disallow"}

\* _check_robots_permission: is_allowed and the cache after the call.
check_robots_permission(cache, url, answer) ==
    LET base_url == Origin(url)
    IN  IF base_url \in DOMAIN cache
        THEN [allowed |-> cache[base_url] = "allow", cache |-> cache]
        ELSE IF answer = "unavailable"
        THEN [allowed |-> TRUE, cache |-> cache]
        ELSE [allowed |-> answer = "allow",
              cache |-> [b \in DOMAIN cache \cup {base_url} |->
                            IF b = base_url THEN answer ELSE cache[b]]]

\* _fetch_content: the html (None when robots.txt disallows the url, on a
\* status other than 200 and on an exception) and whether the page was
\* requested.
fetch_content(allowed, url, status200) ==
    IF ~allowed THEN [html |-> Nothing, fetches |-> 0]
    ELSE IF status200 THEN [html |-> Some("html of " \o url), fetches |-> 1]
    ELSE [html |-> Nothing, fetches |-> 1]

\* The chunks a scrape_webpage call hands to summarize_pages: the cached
\* ones on a hit, the fetched ones otherwise.
PagesToSummarize(store, up, user_google_id, url, fetched) ==
    LET cached_data == RedisGet(store, up, StreamId(user_google_id, url))
    IN  IF ScrapeHit(cached_data) THEN cached_data.val.pages
        ELSE fetched.pages

\* One scrape_webpage call, from its first line to its return. The
\* generation requests it makes are one per chunk and, with more than one
\* chunk, one aggregation.
ScrapeWebpage ==
    \E url \in ScrapeUrls, fetched \in FetchOutcomes :
    \E kinds \in [1..Len(PagesToSummarize(redis, redisUp, ScrapeUser, url,
                                          fetched)) -> GenKinds],
       agg \in IF Len(PagesToSummarize(redis, redisUp, ScrapeUser, url,
                                       fetched)) > 1
               THEN GenKinds ELSE {"none"} :
        LET key == StreamId(ScrapeUser, url)
            c == ScrapeWebpageCall(redis, redisUp, ScrapeUser, url, fetched,
                                   kinds, agg)
        IN  /\ redis' = c.store
            /\ scrLast' = [made |-> TRUE, op |-> "scrape_webpage",
                           url |-> url, result |-> c.result, hit |-> c.hit,
                           fetches |-> c.fetches, robots |-> c.robots,
                           gens |-> c.gens, stored |-> c.stored,
                           pages |-> c.pages,
                           fetched |-> IF c.fetches = 1 THEN fetched.kind
                                       ELSE "none",
                           kinds |-> kinds, agg |-> agg,
                           present |-> key \in DOMAIN redis,
                           readable |-> redisUp /\ key \in DOMAIN redis,
                           entry |-> RedisGet(redis, redisUp, key)]
            /\ UNCHANGED <<redisUp, robots_txt_cache, qaLog, selVars,
                           newsVars, histVars, resVars, synLog, routeLast,
                       chatTurns, serperVars, loopVars, cacheLast, apiVars>>

\* One read_webpage call, from its first line to its return.
ReadWebpage ==
    \E url \in ScrapeUrls, answer \in RobotsAnswers, status200 \in BOOLEAN :
        LET permission == check_robots_permission(robots_txt_cache, url,
                                                  answer)
            f == fetch_content(permission.allowed, url, status200)
        IN  /\ robots_txt_cache' = permission.cache
            /\ scrLast' = [made |-> TRUE, op |-> "read_webpage",
                           url |-> url,
                           result |-> [status |-> IF f.html.some
                                                  THEN "success" ELSE "error",
                                       content |-> f.html],
                           hit |-> FALSE, fetches |-> f.fetches,
                           robots |-> IF permission.allowed THEN "allowed"
                                      ELSE "disallowed",
                           gens |-> 0, stored |-> FALSE, pages |-> <<>>,
                           fetched |-> "none", kinds |-> <<>>,
                           agg |-> "none", present |-> FALSE,
                           readable |-> FALSE, entry |-> Nothing]
            /\ UNCHANGED <<redis, redisUp, qaLog, selVars, newsVars,
                           histVars, resVars, synLog, routeLast,
                       chatTurns, serperVars, loopVars, cacheLast, apiVars>>

InitScrape ==
    /\ redis = <<>>
    /\ redisUp = TRUE
    /\ qaLog = <<>>
    /\ selStrategy = <<>>
    /\ selOriginal = <<>>
    /\ selResult = <<>>
    /\ selPrev = <<>>
    /\ selCalls = 0
    /\ serpKeySet = TRUE
    /\ newsLast = NoCall
    /\ newsWriter = <<>>
    /\ histLast = NoOp
    /\ histSent = 0
    /\ resPc = "idle"
    /\ resRun = NoRun
    /\ resResult = NoCall
    /\ scrLast = NoCall
    /\ robots_txt_cache = <<>>
    /\ synLog = <<>>
    /\ routeLast = NoCall
    /\ chatTurns = <<>>
    /\ SERPER_API_KEYS = <<"key 1">>
    /\ serperKeyIndex = 0
    /\ serperLog = <<>>
    /\ searching = {}
    /\ loopRequests = <<>>
    /\ loopHeld = "none"
    /\ cacheLast = NoCall
    /\ endpointRequests = <<>>
    /\ genLast = NoCall
    /\ keyLast = <<>>

NextScrape ==
    \/ ScrapeWebpage
    \/ ReadWebpage
    \/ Expire
    \/ RedisFail
    \/ RedisRecover

SpecScrape == InitScrape /\ [][NextScrape]_vars


ScrapeCalled == scrLast.made /\ scrLast.op = "scrape_webpage"

ScrapeKey == StreamId(ScrapeUser, scrLast.url)

FetchedChunks == scrLast.fetched = "ok"

\* C12 as the specification states it: a call that finds no cache entry
\* fetches once and leaves the chunk list in the cache, and a call that
\* finds an entry fetches nothing and summarizes the cached chunks.
C12_AsStated ==
    ScrapeCalled =>
        /\ ~scrLast.present =>
               /\ scrLast.fetches = 1
               /\ ScrapeKey \in DOMAIN redis
               /\ JsonLoads(redis[ScrapeKey]).pages = scrLast.pages
        /\ scrLast.present =>
               /\ scrLast.fetches = 0
               /\ scrLast.pages = JsonLoads(redis[ScrapeKey]).pages

\* C12: a scrape_webpage call that reads no cache entry performs one HTTP
\* fetch, and when the fetch and the conversion succeed and the cache takes
\* the write, the cache holds the chunk list for the (user_id, url) pair; a
\* call that reads the entry performs no HTTP fetch, writes nothing, and
\* its result comes from one new summarization pass (one generation request
\* per chunk, one more to aggregate several) over the cached chunks. A
\* failed fetch stores nothing.
C12_RoundTripScrapeCaching ==
    ScrapeCalled =>
        /\ scrLast.hit = scrLast.readable
        /\ ~scrLast.hit => scrLast.fetches = 1
        /\ (~scrLast.hit /\ FetchedChunks /\ redisUp) =>
               /\ scrLast.stored
               /\ ScrapeKey \in DOMAIN redis
               /\ JsonLoads(redis[ScrapeKey]).pages = scrLast.pages
        /\ (~scrLast.hit /\ ~FetchedChunks) =>
               /\ ~scrLast.stored
               /\ scrLast.present = (ScrapeKey \in DOMAIN redis)
        /\ scrLast.hit =>
               /\ scrLast.fetches = 0
               /\ ~scrLast.stored
               /\ scrLast.pages = scrLast.entry.val.pages
               /\ redis[ScrapeKey] = JsonDumps(scrLast.entry.val)
               /\ scrLast.result =
                      summarize_pages(scrLast.entry.val.pages,
                                      scrLast.entry.val.metadata,
                                      scrLast.url, scrLast.kinds,
                                      scrLast.agg).result
               /\ scrLast.gens \in {0, Len(scrLast.pages)
                                         + (IF Len(scrLast.pages) > 1
                                            THEN 1 ELSE 0)}

\* A second call: it found the two chunks a first call stored, fetched
\* nothing and summarized them again.
C12_Witness ==
    /\ ScrapeCalled
    /\ scrLast.hit
    /\ scrLast.fetches = 0
    /\ scrLast.pages = <<"p1", "p2">>
    /\ scrLast.gens = 3
    /\ scrLast.result.status = "success"

AllBlank(pages) == \A i \in 1..Len(pages) : Strip(pages[i]) = ""

GenFailed(kind) == kind \in {"incomplete", "raise"}

\* The string that stands for a chunk whose summarization failed.
Placeholder(i, kind) ==
    IF kind = "incomplete"
    THEN "Summary not completed for chunk " \o ChunkNo(i) \o "."
    ELSE "Error summarizing chunk " \o ChunkNo(i) \o ": timeout"

\* C13: scrape_webpage returns status "error" only when the fetch or the
\* conversion failed or the content, fetched or cached, is empty, and then
\* no generation request was made; with non-empty content the status is
\* "success" whatever the generation requests end with: a failed chunk is
\* represented by its placeholder string, and when the aggregation fails
\* the result is the chunk summaries joined by blank lines.
C13_SummarizationDegrades ==
    ScrapeCalled =>
        LET pages == scrLast.pages
            content == scrLast.result.summarized_content
        IN  /\ scrLast.result.status = "error" =>
                   /\ \/ scrLast.fetched \in {"request_error",
                                              "convert_error"}
                      \/ AllBlank(pages)
                   /\ scrLast.gens = 0
            /\ ~AllBlank(pages) =>
                   /\ scrLast.result.status = "success"
                   /\ content.some
                   /\ (Len(pages) = 1 /\ GenFailed(scrLast.kinds[1])) =>
                          content.val = <<Placeholder(1, scrLast.kinds[1])>>
                   /\ (Len(pages) = 2 /\ GenFailed(scrLast.agg)) =>
                          content.val =
                              (IF GenFailed(scrLast.kinds[1])
                               THEN <<Placeholder(1, scrLast.kinds[1])>>
                               ELSE <<"summary of " \o pages[1]>>)
                              \o <<"\n\n">> \o
                              (IF GenFailed(scrLast.kinds[2])
                               THEN <<Placeholder(2, scrLast.kinds[2])>>
                               ELSE <<"summary of " \o pages[2]>>)

\* Two chunks read from the cache, the first summarization raises and the
\* aggregation is incomplete: the call still succeeds.
C13_Witness ==
    /\ ScrapeCalled
    /\ scrLast.pages = <<"p1", "p2">>
    /\ scrLast.kinds[1] = "raise"
    /\ scrLast.agg = "incomplete"
    /\ scrLast.result.status = "success"

\* C14 as the specification states it: no page is fetched unless the
\* robots.txt check for the origin of the url was made first and allowed
\* it.
C14_AsStated ==
    (scrLast.made /\ scrLast.fetches > 0) => scrLast.robots = "allowed"


(***************************************************************************)
(* scripts/web/web.py: synthesize_information                              *)
(***************************************************************************)
\* The urls of the sources in the order of sorted().
UrlsInOrder == <<"http://a", "http://b">>

RECURSIVE SortedFrom(_, _)
\* sorted(urls), from the k-th url of the order on.
SortedFrom(urls, k) ==
    IF k > Len(UrlsInOrder) THEN <<>>
    ELSE [i \in 1..Count(urls, UrlsInOrder[k]) |-> UrlsInOrder[k]]
             \o SortedFrom(urls, k + 1)

RECURSIVE Concat(_, _)
\* The string a text is, from its i-th piece on.
Concat(text, i) ==
    IF i > Len(text) THEN "" ELSE text[i] \o Concat(text, i + 1)

RECURSIVE PyStr(_, _)
\* str() of a list of strings, from its i-th element on.
PyStr(list, i) ==
    IF i > Len(list) THEN "]"
    ELSE (IF i = 1 THEN "['" ELSE ", '") \o list[i] \o "'"
             \o PyStr(list, i + 1)

\* hashlib.md5(...).hexdigest(), taken to be free of collisions.
Md5(string) == "md5(" \o string \o ")"

\* cache_key
SynthesisKey(user_id, sources, query) ==
    LET urls == [k \in 1..Len(sources) |-> sources[k].url]
        sorted == SortedFrom(urls, 1)
        sources_hash == Md5(IF sorted = <<>> THEN "[]" ELSE PyStr(sorted, 1))
    IN  user_id \o <<":synthesis:", sources_hash, ":", Md5(Concat(query, 1))>>

\* What the generation request ends with: an exception or a text.
SynthGenOutcomes ==
    {[raised |-> TRUE, text |-> <<>>],
     [raised |-> FALSE, text |-> <<"answer 1">>],
     [raised |-> FALSE, text |-> <<"answer 2">>]}

\* Whether synthesize_information returns what it read from the cache
\* (if cached_result:).
SynthHitIgnored(cached_result) == FALSE

SynthHit(cached_result) == cached_result.some

\* synthesize_information: the envelope, the store after the call and the
\* number of generation requests.
SynthesizeInformationCall(store, up, user_id, sources, query, out) ==
    LET cache_key == SynthesisKey(user_id, sources, query)
        cached_result == RedisGet(store, up, cache_key)
    IN  IF SynthHit(cached_result)
        THEN [result |-> cached_result.val, store |-> store, gen |-> 0,
              stored |-> FALSE]
        ELSE IF out.raised
        THEN [result |-> SynthesisError, store |-> store, gen |-> 1,
              stored |-> FALSE]
        ELSE LET result == [SynthesisSuccess(sources, query)
                               EXCEPT !.synthesized_answer = Some(out.text)]
             IN  [result |-> result,
                  store |-> RedisStored(store, up, cache_key, result),
                  gen |-> 1, stored |-> up]

SynthUser == <<"u1">>

SynthQuery == <<"what", " is", " x">>

\* Source lists over two urls: the two orders of one set, and the same set
\* with one url twice.
SynthSourceLists ==
    LET a == WebSource(Context("a", <<"about a">>))
        b == WebSource(Context("b", <<"about b">>))
    IN  {<<a, b>>, <<b, a>>, <<a, a, b>>}

\* One synthesize_information call, from its first line to its return.
SynthesizeInformation ==
    \E sources \in SynthSourceLists, out \in SynthGenOutcomes :
        LET query == SynthQuery
            c == SynthesizeInformationCall(redis, redisUp, SynthUser,
                                           sources, query, out)
            key == SynthesisKey(SynthUser, sources, query)
        IN  /\ redis' = c.store
            /\ synLog' = Window(synLog,
                   [sources |-> sources, query |-> query,
                    result |-> c.result, gen |-> c.gen,
                    stored |-> c.stored,
                    changed |-> c.store # redis,
                    readable |-> redisUp /\ key \in DOMAIN redis])
            /\ UNCHANGED <<redisUp, qaLog, selVars, newsVars, histVars,
                           resVars, scrVars, routeLast,
                       chatTurns, serperVars, loopVars, cacheLast, apiVars>>

InitSynth ==
    /\ redis = <<>>
    /\ redisUp = TRUE
    /\ qaLog = <<>>
    /\ selStrategy = <<>>
    /\ selOriginal = <<>>
    /\ selResult = <<>>
    /\ selPrev = <<>>
    /\ selCalls = 0
    /\ serpKeySet = TRUE
    /\ newsLast = NoCall
    /\ newsWriter = <<>>
    /\ histLast = NoOp
    /\ histSent = 0
    /\ resPc = "idle"
    /\ resRun = NoRun
    /\ resResult = NoCall
    /\ scrLast = NoCall
    /\ robots_txt_cache = <<>>
    /\ synLog = <<>>
    /\ routeLast = NoCall
    /\ chatTurns = <<>>
    /\ SERPER_API_KEYS = <<"key 1">>
    /\ serperKeyIndex = 0
    /\ serperLog = <<>>
    /\ searching = {}
    /\ loopRequests = <<>>
    /\ loopHeld = "none"
    /\ cacheLast = NoCall
    /\ endpointRequests = <<>>
    /\ genLast = NoCall
    /\ keyLast = <<>>

NextSynth == SynthesizeInformation \/ Expire \/ RedisFail \/ RedisRecover

SpecSynth == InitSynth /\ [][NextSynth]_vars


SourceUrls(sources) == [k \in 1..Len(sources) |-> sources[k].url]

UrlSet(sources) == {sources[k].url : k \in 1..Len(sources)}

\* The same urls the same number of times each, in any order.
SameUrlList(s1, s2) ==
    SortedFrom(SourceUrls(s1), 1) = SortedFrom(SourceUrls(s2), 1)

SynthFailureNotCached ==
    /\ \A i \in 1..Len(synLog) :
           synLog[i].result.status = "error" => ~synLog[i].changed
    /\ \A k \in DOMAIN redis : JsonLoads(redis[k]).status = "success"

\* C19 as the specification states it: two consecutive
\* synthesize_information calls of one user with the same set of source
\* urls and the same query return the same synthesis and the second issues
\* no generation request; a failed synthesis is never cached.
C19_AsStated ==
    /\ (/\ Len(synLog) = 2
        /\ UrlSet(synLog[1].sources) = UrlSet(synLog[2].sources)
        /\ synLog[1].query = synLog[2].query)
           => /\ synLog[2].result = synLog[1].result
              /\ synLog[2].gen = 0
    /\ SynthFailureNotCached

\* C19: for one user, when two consecutive synthesize_information calls
\* have the same query and the same source urls, each the same number of
\* times, in any order, and the first returns success with its result in
\* the cache (written by it, or read from there), and the entry is still
\* readable when the second call is made, the second call returns the same
\* synthesis and issues no generation request; a failed synthesis is never
\* cached.
C19_SynthesisCaching ==
    /\ (/\ Len(synLog) = 2
        /\ SameUrlList(synLog[1].sources, synLog[2].sources)
        /\ synLog[1].query = synLog[2].query
        /\ synLog[1].result.status = "success"
        /\ (synLog[1].stored \/ synLog[1].gen = 0)
        /\ synLog[2].readable)
           => /\ synLog[2].result = synLog[1].result
              /\ synLog[2].gen = 0
    /\ SynthFailureNotCached

\* A first call that generated and cached its synthesis, followed by a call
\* with the same sources in the other order, answered from the cache.
C19_Witness ==
    /\ Len(synLog) = 2
    /\ synLog[1].sources # synLog[2].sources
    /\ SameUrlList(synLog[1].sources, synLog[2].sources)
    /\ synLog[1].gen = 1
    /\ synLog[1].stored
    /\ synLog[2].readable
    /\ synLog[2].gen = 0
    /\ synLog[2].result = synLog[1].result

(***************************************************************************)
(* scripts/web/chatEngine.py: detect_intent_and_execute_tools              *)
(*                                                                         *)
(* A text is the sequence of its pieces, cut so that every phrase the      *)
(* router looks for begins and ends at a cut: phrase in text.lower() is    *)
(* the occurrence of the phrase among the lowercased pieces.               *)
(***************************************************************************)
PhraseIn(phrase, text) == \E i \in 1..Len(text) : Lower(text[i]) = phrase

\* extract_keywords_from_intent: the keywords found, in the order of
\* research_keywords + news_keywords + search_keywords + scrape_keywords.
extract_keywords_from_intent(intent_text) ==
    LET research_keywords == <<"research", "investigate", "comprehensive",
                               "analyze", "study", "examine", "explore">>
        news_keywords == <<"news", "latest", "recent", "update",
                           "current events", "today's headlines">>
        search_keywords == <<"search", "find", "lookup", "information",
                             "details", "data">>
        scrape_keywords == <<"read", "extract", "scrape", "content",
                             "article", "webpage", "website">>
        found(keyword) == PhraseIn(keyword, intent_text)
    IN  SelectSeq(research_keywords \o news_keywords \o search_keywords
                      \o scrape_keywords, found)

\* The urls of the messages: the pieces that match https?://[^\s]+.
RouterUrls == {"http://a/p", "https://b/q"}

RECURSIVE UrlMatch(_, _)
\* re.search(r'https?://[^\s]+', query): the first url from piece i on.
UrlMatch(query, i) ==
    IF i > Len(query) THEN Nothing
    ELSE IF query[i] \in RouterUrls THEN Some(query[i])
    ELSE UrlMatch(query, i + 1)

\* any(kw in keywords for kw in list)
AnyIn(list, keywords) ==
    \E k \in 1..Len(keywords) : keywords[k] \in list

ScrapeRuleNever(has_url, keywords) == FALSE

\* The condition of the first branch of the decision pipeline.
ScrapeRule(has_url, keywords) ==
    has_url /\ AnyIn({"read", "extract", "scrape"}, keywords)

InferDaysBackDefault(query) == 7

\* days_back: the days of the first entry of time_indicators whose phrase
\* occurs in the message, 7 when none does.
InferDaysBack(query) ==
    CASE PhraseIn("today", query) -> 1
      [] PhraseIn("yesterday", query) -> 2
      [] PhraseIn("last 24 hours", query) -> 1
      [] PhraseIn("this week", query) -> 7
      [] PhraseIn("last week", query) -> 14
      [] PhraseIn("this month", query) -> 30
      [] PhraseIn("recent", query) -> 30
      [] OTHER -> 7

\* detect_intent_and_execute_tools after analyze_query has returned
\* query_analysis: the envelope returned, its data standing for the call
\* made to obtain it.
detect_intent_and_execute_tools(query, query_analysis) ==
    IF query_analysis.status = "error"
    THEN [status |-> "error",
          message |-> <<"Error analyzing query: ">>
                          \o query_analysis.message,
          data |-> Nothing]
    ELSE
    LET intent_text == query_analysis.analysis.intent
        keywords == extract_keywords_from_intent(intent_text)
        url_match == UrlMatch(query, 1)
        has_url == url_match.some
        days_back == InferDaysBack(query)
        depth ==
            IF \E w \in {"detailed", "deep", "comprehensive", "thorough"} :
                   PhraseIn(w, query)
            THEN "deep"
            ELSE IF \E w \in {"quick", "brief", "summary", "short"} :
                        PhraseIn(w, query)
            THEN "quick"
            ELSE "standard"
        weather_keywords ==
            {"weather", "temperature", "forecast", "climate", "rain",
             "sunny", "snow", "humidity", "wind", "storm", "tornado",
             "heatwave", "cold front", "air quality", "dew point",
             "chance of rain", "precipitation", "conditions",
             "weather report", "5-day forecast"}
        info_keywords ==
            {"what is", "who is", "tell me about", "information on",
             "details about", "define", "explain", "meaning of",
             "overview of", "how does", "how do", "why is", "history of",
             "summary of", "examples of", "background on", "describe",
             "function of", "purpose of", "origin of", "cause of"}
        location_keywords ==
            {"in", "at", "near", "around", "close to", "located in",
             "situated in", "within", "surrounding", "region",
             "neighborhood", "province", "district", "city", "town",
             "village", "state", "country", "area", "place", "local",
             "map of", "where is", "directions to", "how far"}
        web_search ==
            [status |-> "success", message |-> "Web search completed",
             data |-> Some([call |-> "search_web", query |-> query]),
             tool_used |-> Some("web_search")]
    IN  IF ScrapeRule(has_url, keywords)
        THEN [status |-> "success", message |-> "Webpage scraped",
              data |-> Some([call |-> "scrape_webpage",
                             url |-> url_match.val]),
              tool_used |-> Some("scrape_webpage")]
        ELSE IF AnyIn({"research", "investigate", "comprehensive",
                       "analyze", "study"}, keywords)
        THEN [status |-> "success", message |-> "Research completed",
              data |-> Some([call |-> "perform_research", query |-> query,
                             depth |-> depth]),
              tool_used |-> Some("research")]
        ELSE IF AnyIn({"news", "latest", "recent", "update"}, keywords)
        THEN [status |-> "success", message |-> "News fetched",
              data |-> Some([call |-> "fetch_news", query |-> query,
                             max_results |-> 10, days_back |-> days_back]),
              tool_used |-> Some("news")]
        ELSE IF \E word \in weather_keywords : PhraseIn(word, query)
        THEN web_search
        ELSE IF \E phrase \in info_keywords : PhraseIn(phrase, query)
        THEN web_search
        ELSE IF \/ \E word \in location_keywords : PhraseIn(word, query)
                \/ AnyIn({"search", "find", "lookup"}, keywords)
                \/ keywords = <<>>
        THEN web_search
        ELSE [status |-> "info",
              message |-> "No specific tool matched the intent",
              data |-> Some([call |-> "none",
                             query_analysis |-> query_analysis]),
              tool_used |-> Nothing]

\* Words the messages and the intents are made of.
MessageWords == RouterUrls \cup {"weather", "what is", "near", "hello"}

IntentWords == {"read", "research", "News", "find", "explore"}

\* The texts of at most two pieces over a set of words.
Texts(words) ==
    {<<>>} \cup {<<w>> : w \in words}
        \cup {<<w1, w2>> : w1 \in words, w2 \in words}

\* What analyze_query returns: an error envelope or an analysis with its
\* intent text.
RouterAnalyses ==
    {QaError("timeout")}
        \cup {[status |-> "success",
               analysis |-> [intent |-> t, search_strategy |-> <<>>]] :
                  t \in Texts(IntentWords)}

\* One detect_intent_and_execute_tools call, from its first line to its
\* return, for a message and an analysis out of the given sets.
Route(messages, analyses) ==
    \E query \in messages, query_analysis \in analyses :
        /\ routeLast' =
               [made |-> TRUE, query |-> query,
                query_analysis |-> query_analysis,
                result |-> detect_intent_and_execute_tools(query,
                                                          query_analysis)]
        /\ UNCHANGED <<redis, redisUp, qaLog, selVars, newsVars, histVars,
                       resVars, scrVars, synLog,
                       chatTurns, serperVars, loopVars, cacheLast, apiVars>>

InitRoute ==
    /\ redis = <<>>
    /\ redisUp = TRUE
    /\ qaLog = <<>>
    /\ selStrategy = <<>>
    /\ selOriginal = <<>>
    /\ selResult = <<>>
    /\ selPrev = <<>>
    /\ selCalls = 0
    /\ serpKeySet = TRUE
    /\ newsLast = NoCall
    /\ newsWriter = <<>>
    /\ histLast = NoOp
    /\ histSent = 0
    /\ resPc = "idle"
    /\ resRun = NoRun
    /\ resResult = NoCall
    /\ scrLast = NoCall
    /\ robots_txt_cache = <<>>
    /\ synLog = <<>>
    /\ routeLast = NoCall
    /\ chatTurns = <<>>
    /\ SERPER_API_KEYS = <<"key 1">>
    /\ serperKeyIndex = 0
    /\ serperLog = <<>>
    /\ searching = {}
    /\ loopRequests = <<>>
    /\ loopHeld = "none"
    /\ cacheLast = NoCall
    /\ endpointRequests = <<>>
    /\ genLast = NoCall
    /\ keyLast = <<>>

DetectIntentAndExecuteTools == Route(Texts(MessageWords), RouterAnalyses)

NextRoute == DetectIntentAndExecuteTools

SpecRoute == InitRoute /\ [][NextRoute]_vars


\* The phrases of the messages from which the router infers the depth of a
\* research and the day window of the news.
ParameterWords ==
    {"today", "yesterday", "last 24 hours", "this week", "last week",
     "this month", "recent", "detailed", "deep", "comprehensive",
     "thorough", "quick", "brief", "summary", "short", "hello"}

\* Analyses whose intent asks for a research and for news.
ParameterAnalyses ==
    {[status |-> "success",
      analysis |-> [intent |-> t, search_strategy |-> <<>>]] :
         t \in {<<"research">>, <<"News">>}}

\* A detect_intent_and_execute_tools call for a message made of parameter
\* phrases.
DetectIntentWithParameters ==
    Route(Texts(ParameterWords), ParameterAnalyses)

NextRouteParameters == DetectIntentWithParameters

SpecRouteParameters == InitRoute /\ [][NextRouteParameters]_vars

\* Follow-up messages that name no topic. "Tell me more about that" holds
\* the location keyword "at" inside "that".
TellMeMoreAboutThat == <<"Tell me more about th", "at">>

FollowUpMessages ==
    {TellMeMoreAboutThat, <<"Tell me more">>, <<"Go on">>, <<"And then?">>}

\* A detect_intent_and_execute_tools call for a follow-up message.
DetectIntentOfFollowUp == Route(FollowUpMessages, RouterAnalyses)

NextFollowUp == DetectIntentOfFollowUp

SpecFollowUp == InitRoute /\ [][NextFollowUp]_vars

Routed == routeLast.made /\ routeLast.query_analysis.status = "success"

\* The keyword occurs in the intent text of the routed message.
IntentHas(keywords) ==
    \E kw \in keywords :
        PhraseIn(kw, routeLast.query_analysis.analysis.intent)

MessageHas(phrases) == \E ph \in phrases : PhraseIn(ph, routeLast.query)

MessageUrls ==
    SelectSeq(routeLast.query, LAMBDA piece : piece \in RouterUrls)

\* The five rules, each evaluated on the message and the intent alone.
Rule1 == MessageUrls # <<>> /\ IntentHas({"read", "extract", "scrape"})

Rule2 ==
    IntentHas({"research", "investigate", "comprehensive", "analyze",
               "study"})

Rule3 == IntentHas({"news", "latest", "recent", "update"})

Rule4 ==
    \/ MessageHas({"weather", "what is", "near"})
    \/ IntentHas({"search", "find", "lookup"})
    \/ ~IntentHas({"research", "investigate", "comprehensive", "analyze",
                   "study", "examine", "explore", "news", "latest",
                   "recent", "update", "current events",
                   "today's headlines", "search", "find", "lookup",
                   "information", "details", "data", "read", "extract",
                   "scrape", "content", "article", "webpage", "website"})

ToolUsed == routeLast.result.tool_used

\* C20: the router applies its rules in a fixed order and the first match
\* wins: a url in the message with a reading intent scrapes the first url;
\* else a research intent runs the research; else a news intent fetches
\* news; else a weather, informational or location phrase in the message,
\* a search keyword in the intent or an intent without keywords runs a web
\* search; else no tool is used and tool_used is null. Every message is
\* dispatched to at most one tool, the one of the first rule it satisfies.
C20_FirstMatchWins ==
    Routed =>
        /\ Rule1 =>
               /\ ToolUsed = Some("scrape_webpage")
               /\ routeLast.result.data.val =
                      [call |-> "scrape_webpage", url |-> MessageUrls[1]]
        /\ (~Rule1 /\ Rule2) =>
               /\ ToolUsed = Some("research")
               /\ routeLast.result.data.val.call = "perform_research"
        /\ (~Rule1 /\ ~Rule2 /\ Rule3) =>
               /\ ToolUsed = Some("news")
               /\ routeLast.result.data.val.call = "fetch_news"
        /\ (~Rule1 /\ ~Rule2 /\ ~Rule3 /\ Rule4) =>
               /\ ToolUsed = Some("web_search")
               /\ routeLast.result.data.val.call = "search_web"
        /\ (~Rule1 /\ ~Rule2 /\ ~Rule3 /\ ~Rule4) =>
               /\ ToolUsed = Nothing
               /\ routeLast.result.status = "info"
               /\ routeLast.result.data.val.call = "none"

\* A message with two urls whose intent both reads and researches: the
\* first two rules match and the first url is scraped.
C20_Witness ==
    /\ Routed
    /\ Rule1 /\ Rule2
    /\ Len(MessageUrls) = 2
    /\ MessageUrls[1] # MessageUrls[2]
    /\ ToolUsed = Some("scrape_webpage")


Researched ==
    /\ routeLast.made
    /\ routeLast.result.status = "success"
    /\ routeLast.result.tool_used = Some("research")

NewsFetched ==
    /\ routeLast.made
    /\ routeLast.result.status = "success"
    /\ routeLast.result.tool_used = Some("news")

DepthInferred ==
    Researched =>
        routeLast.result.data.val.depth =
            IF MessageHas({"detailed", "deep", "comprehensive", "thorough"})
            THEN "deep"
            ELSE IF MessageHas({"quick", "brief", "summary", "short"})
            THEN "quick"
            ELSE "standard"

\* C21 as the specification states it: the depth of a research is deep,
\* quick or standard by the words of the message, and the day window of the
\* news is 1 for today, 2 for yesterday, 7 for this week, 14 for last week,
\* 30 for this month or recent, and 7 for a message with none of these.
C21_AsStated ==
    /\ DepthInferred
    /\ NewsFetched =>
           LET days == routeLast.result.data.val.days_back
           IN  /\ days \in 1..30
               /\ (~MessageHas({"today", "yesterday", "this week",
                                   "last week", "this month", "recent"}))
                      => days = 7
               /\ \E d \in {7} \cup
                      {w[2] : w \in {x \in {<<"today", 1>>, <<"yesterday", 2>>,
                                            <<"this week", 7>>,
                                            <<"last week", 14>>,
                                            <<"this month", 30>>,
                                            <<"recent", 30>>} :
                                        PhraseIn(x[1], routeLast.query)}} :
                      days = d

\* The time phrases in the order in which the router tries them.
TimePhrases ==
    <<<<"today", 1>>, <<"yesterday", 2>>, <<"last 24 hours", 1>>,
      <<"this week", 7>>, <<"last week", 14>>, <<"this month", 30>>,
      <<"recent", 30>>>>

\* C21: the router infers its tool parameters from the message text only:
\* the depth of a research is deep if the message contains any of
\* detailed/deep/comprehensive/thorough, otherwise quick if it contains any
\* of quick/brief/summary/short, otherwise standard; the day window of the
\* news is that of the first phrase the message contains among today (1),
\* yesterday (2), last 24 hours (1), this week (7), last week (14), this
\* month (30), recent (30), and 7 when it contains none, so it always lies
\* in 1..30.
C21_ParametersFromMessage ==
    /\ DepthInferred
    /\ NewsFetched =>
           LET days == routeLast.result.data.val.days_back
               found == {k \in 1..Len(TimePhrases) :
                            PhraseIn(TimePhrases[k][1], routeLast.query)}
           IN  /\ days \in 1..30
               /\ found = {} => days = 7
               /\ found # {} =>
                      \E k \in found :
                          /\ \A j \in found : k <= j
                          /\ days = TimePhrases[k][2]

\* News for a message that says last 24 hours after recent: the window is
\* one day.
C21_Witness ==
    /\ NewsFetched
    /\ routeLast.query = <<"recent", "last 24 hours">>
    /\ routeLast.result.data.val.days_back = 1


\* tool_result.get("tool_used"): None too when the envelope has no such
\* key.
ToolUsedOfTurn ==
    IF routeLast.result.status = "error" THEN Nothing
    ELSE routeLast.result.tool_used

\* C22 as the specification states it: a follow-up message that names no
\* topic, such as "Tell me more about that", is answered with no tool
\* invoked, tool_used being None.
C22_AsStated ==
    (routeLast.made /\ routeLast.query = TellMeMoreAboutThat)
        => ToolUsedOfTurn = Nothing


(***************************************************************************)
(* scripts/web/chatEngine.py: chat                                         *)
(*                                                                         *)
(* A turn is followed from await to await. detect_intent_and_execute_tools *)
(* is represented by what it returns or raises, the generation request by  *)
(* its outcome.                                                            *)
(***************************************************************************)
ChatTurnIds == {"t1", "t2"}

\* A Python list, told apart from a dict.
PyList(elements) == [list |-> elements]

\* key in dict
HasKey(dict, key) == key \in DOMAIN dict

\* What detect_intent_and_execute_tools hands to chat: tool_used and data
\* of the envelopes it returns, data being what the tool returned.
ToolResults ==
    {\* analyze_query failed: no tool_used key, data None
     [status |-> "error", data |-> Nothing],
     \* no tool matched
     [status |-> "info", tool_used |-> Nothing,
      data |-> Some([status |-> "success"])],
     \* search_web: [] after a failed search
     [status |-> "success", tool_used |-> Some("web_search"),
      data |-> Some(PyList(<<>>))],
     \* scrape_webpage: a success envelope, an error envelope of a failed
     \* fetch
     [status |-> "success", tool_used |-> Some("scrape_webpage"),
      data |-> Some(summarize_pages(<<"p1">>,
                                    Some([title |-> "title",
                                          url |-> "http://a/p"]),
                                    "http://a/p", <<"ok">>, "none").result)],
     [status |-> "success", tool_used |-> Some("scrape_webpage"),
      data |-> Some(ScrapeError("Error fetching ", "http://a/p"))],
     \* perform_research: the error envelope with result None
     [status |-> "success", tool_used |-> Some("research"),
      data |-> Some([status |-> "error", result |-> Nothing])]}

\* tool_result.get("tool_used")
ToolUsedOf(tool_result) ==
    IF HasKey(tool_result, "tool_used") THEN tool_result.tool_used
    ELSE Nothing

\* What the wait on detect_intent_and_execute_tools ends with: an envelope,
\* or the exception perform_research raises.
DetectOutcomes ==
    {Returned(r) : r \in ToolResults} \cup {Raised("AttributeError")}

\* format_tool_result_for_llm: whether it returns a text or raises. A key
\* that is present with the value None is not replaced by the default of
\* get, and a list has no get.
format_tool_result_for_llm(tool_result) ==
    LET tool_used == ToolUsedOf(tool_result)
        data == tool_result.data.val
    IN  CASE tool_used = Some("research") ->
                 IF ~data.result.some THEN Raised("AttributeError")
                 ELSE Returned("RESEARCH RESULTS")
          [] tool_used = Some("news") -> Returned("NEWS RESULTS")
          [] tool_used = Some("web_search") ->
                 IF HasKey(data, "list") THEN Raised("AttributeError")
                 ELSE Returned("SEARCH RESULTS")
          [] tool_used = Some("scrape_webpage") ->
                 IF ~data.metadata.some THEN Raised("AttributeError")
                 ELSE IF ~data.summarized_content.some
                 THEN Raised("TypeError")
                 ELSE Returned("WEBPAGE CONTENT")
          [] OTHER -> Returned("ANALYSIS")

\* What the generation request of generate_contextual_response ends with:
\* a reply, a response whose content is the empty string, an exception.
ChatGenOutcomes ==
    {[ok |-> TRUE, chars |-> 8002], [ok |-> TRUE, chars |-> 0],
     [ok |-> FALSE, chars |-> 76]}

GenerationApology ==
    "I encountered an error while processing your request. Please try again."

ChatApology ==
    "I'm having trouble processing your request right now. Please try again later."

\* generate_contextual_response after format_tool_result_for_llm: the text
\* of the answer, the apology when the generation request fails.
generate_contextual_response(turn, out) ==
    IF out.ok
    THEN [text |-> IF out.chars = 0 THEN <<>> ELSE <<"answer of ", turn>>,
          chars |-> out.chars]
    ELSE [text |-> <<GenerationApology>>, chars |-> out.chars]

\* The envelope of the except branch of chat.
ChatError(err) ==
    [status |-> "error",
     message |-> <<"Error processing your message: ", err>>,
     response |-> <<ChatApology>>,
     metadata |-> [error |-> err, timestamp |-> "now"]]

ChatSuccess(response_text, tool_used) ==
    [status |-> "success",
     message |-> <<"Response generated successfully">>,
     response |-> response_text.text,
     metadata |-> [tool_used |-> tool_used, timestamp |-> "now"]]

UserMessage(turn) ==
    [role |-> "user",
     content |-> [text |-> <<"question of ", turn>>, chars |-> 4],
     timestamp |-> "now"]

AssistantMessage(response_text, tool_used) ==
    [role |-> "assistant", content |-> response_text, timestamp |-> "now",
     metadata |-> [tool_used |-> tool_used]]

IdleTurn ==
    [pc |-> "idle", temp_history |-> <<>>, tool_result |-> Nothing,
     history |-> <<>>, response_text |-> Nothing, result |-> Nothing,
     before |-> <<>>, sent |-> <<>>, writes |-> <<>>,
     down |-> FALSE, detected |-> Nothing, generated |-> Nothing]

\* The history the store holds for the conversation, whether or not the
\* store can be reached.
StoredHistory ==
    IF HistoryKey(TheConversation) \in DOMAIN redis
    THEN JsonLoads(redis[HistoryKey(TheConversation)])
    ELSE <<>>

\* What a turn hands to the store: the history it had read, the list it
\* writes, whether the store takes it, what the store held until then and
\* what it holds when store_conversation returns.
Write(read, written) ==
    [read |-> read, written |-> written, ok |-> redisUp,
     over |-> StoredHistory, after |-> StoredHistory']

\* chat returns: the turn keeps its result and what it did, its local
\* variables are gone.
Finished(turn, result) ==
    [turn EXCEPT !.pc = "done", !.result = result,
                 !.temp_history = <<>>, !.tool_result = Nothing,
                 !.history = <<>>, !.response_text = Nothing]

\* chat, to its first await: history = await get_conversation_history, and
\* temp_history.
ChatStart(t) ==
    /\ chatTurns[t].pc = "idle"
    /\ chatTurns' = [chatTurns EXCEPT ![t] =
           [@ EXCEPT !.pc = "detect",
                     !.temp_history =
                         get_conversation_history(redis, redisUp,
                                                  TheConversation)
                             \o <<UserMessage(t)>>,
                     !.before = StoredHistory,
                     !.down = ~redisUp]]
    /\ UNCHANGED <<redis, redisUp, qaLog, selVars, newsVars, histVars,
                   resVars, scrVars, synLog, routeLast, serperVars,
                   loopVars, cacheLast, apiVars>>

\* The wait on detect_intent_and_execute_tools ends: an exception leads to
\* the except branch, an envelope to update_conversation_history.
DetectReturns(t) ==
    /\ chatTurns[t].pc = "detect"
    /\ \E o \in DetectOutcomes :
           chatTurns' = [chatTurns EXCEPT ![t] =
               IF o.raised
               THEN Finished([@ EXCEPT !.detected = Some(o)],
                             ChatError(o.error))
               ELSE [@ EXCEPT !.pc = "read for user",
                              !.tool_result = o.value,
                              !.detected = Some(o)]]
    /\ UNCHANGED <<redis, redisUp, qaLog, selVars, newsVars, histVars,
                   resVars, scrVars, synLog, routeLast, serperVars,
                   loopVars, cacheLast, apiVars>>

\* update_conversation_history, to the return of its read:
\* history = await get_conversation_history(user_id).
UpdateReads(t) ==
    /\ chatTurns[t].pc \in {"read for user", "read for assistant"}
    /\ chatTurns' = [chatTurns EXCEPT ![t] =
           [@ EXCEPT !.pc = IF @ = "read for user" THEN "store for user"
                            ELSE "store for assistant",
                     !.history =
                         get_conversation_history(redis, redisUp,
                                                  TheConversation),
                     !.down = @ /\ ~redisUp]]
    /\ UNCHANGED <<redis, redisUp, qaLog, selVars, newsVars, histVars,
                   resVars, scrVars, synLog, routeLast, serperVars,
                   loopVars, cacheLast, apiVars>>

\* update_conversation_history, from history.extend to the return of the
\* store, for the user message; chat goes on to
\* generate_contextual_response.
UpdateStoresUser(t) ==
    /\ chatTurns[t].pc = "store for user"
    /\ \E out \in SummaryOutcomes :
           LET turn == chatTurns[t]
               new == <<UserMessage(t)>>
               history == HistoryToStore(turn.history, new, out)
           IN  /\ redis' = RedisStored(redis, redisUp,
                                       HistoryKey(TheConversation), history)
               /\ chatTurns' = [chatTurns EXCEPT ![t] =
                      [@ EXCEPT !.pc = "generate",
                                !.sent = Append(@, UserMessage(t)),
                                !.down = @ /\ ~redisUp,
                                !.writes =
                                    Append(@, Write(turn.history, history))]]
    /\ UNCHANGED <<redisUp, qaLog, selVars, newsVars, histVars, resVars,
                   scrVars, synLog, routeLast, serperVars, loopVars, cacheLast, apiVars>>

\* generate_contextual_response returns or raises: format_tool_result_for_llm
\* is called outside its try, the generation request inside.
GenerateReturns(t) ==
    /\ chatTurns[t].pc = "generate"
    /\ \E out \in ChatGenOutcomes :
           LET tool_context ==
                   format_tool_result_for_llm(chatTurns[t].tool_result)
           IN  chatTurns' = [chatTurns EXCEPT ![t] =
                   IF tool_context.raised
                   THEN Finished(@, ChatError(tool_context.error))
                   ELSE [@ EXCEPT !.pc = "read for assistant",
                                  !.generated = Some(out),
                                  !.response_text =
                                      generate_contextual_response(t, out)]]
    /\ UNCHANGED <<redis, redisUp, qaLog, selVars, newsVars, histVars,
                   resVars, scrVars, synLog, routeLast, serperVars,
                   loopVars, cacheLast, apiVars>>

\* update_conversation_history, from history.extend to the return of the
\* store, for the assistant message; chat returns the success envelope.
UpdateStoresAssistant(t) ==
    /\ chatTurns[t].pc = "store for assistant"
    /\ \E out \in SummaryOutcomes :
           LET turn == chatTurns[t]
               tool_used == ToolUsedOf(turn.tool_result)
               assistant_message ==
                   AssistantMessage(turn.response_text, tool_used)
               new == <<assistant_message>>
               history == HistoryToStore(turn.history, new, out)
           IN  /\ redis' = RedisStored(redis, redisUp,
                                       HistoryKey(TheConversation), history)
               /\ chatTurns' = [chatTurns EXCEPT ![t] =
                      [Finished(@, ChatSuccess(turn.response_text,
                                               tool_used))
                          EXCEPT !.sent = Append(@, assistant_message),
                                !.down = @ /\ ~redisUp,
                                !.writes =
                                    Append(@, Write(turn.history, history))]]
    /\ UNCHANGED <<redisUp, qaLog, selVars, newsVars, histVars, resVars,
                   scrVars, synLog, routeLast, serperVars, loopVars, cacheLast, apiVars>>

InitChat ==
    /\ redis = <<>>
    /\ redisUp = TRUE
    /\ qaLog = <<>>
    /\ selStrategy = <<>>
    /\ selOriginal = <<>>
    /\ selResult = <<>>
    /\ selPrev = <<>>
    /\ selCalls = 0
    /\ serpKeySet = TRUE
    /\ newsLast = NoCall
    /\ newsWriter = <<>>
    /\ histLast = NoOp
    /\ histSent = 0
    /\ resPc = "idle"
    /\ resRun = NoRun
    /\ resResult = NoCall
    /\ scrLast = NoCall
    /\ robots_txt_cache = <<>>
    /\ synLog = <<>>
    /\ routeLast = NoCall
    /\ chatTurns = [t \in ChatTurnIds |-> IdleTurn]
    /\ SERPER_API_KEYS = <<"key 1">>
    /\ serperKeyIndex = 0
    /\ serperLog = <<>>
    /\ searching = {}
    /\ loopRequests = <<>>
    /\ loopHeld = "none"
    /\ cacheLast = NoCall
    /\ endpointRequests = <<>>
    /\ genLast = NoCall
    /\ keyLast = <<>>

NextChat ==
    \/ \E t \in ChatTurnIds :
           \/ ChatStart(t)
           \/ DetectReturns(t)
           \/ UpdateReads(t)
           \/ UpdateStoresUser(t)
           \/ GenerateReturns(t)
           \/ UpdateStoresAssistant(t)
    \/ Expire
    \/ RedisFail
    \/ RedisRecover

SpecChat == InitChat /\ [][NextChat]_vars


TurnDone(t) == chatTurns[t].pc = "done"

\* No write of the turn compacted the history.
NotCompacted(t) ==
    \A i \in 1..Len(chatTurns[t].writes) :
        chatTurns[t].writes[i].written =
            chatTurns[t].writes[i].read \o <<chatTurns[t].sent[i]>>

\* C23 as the specification states it: every chat turn persists exactly two
\* new messages, the user message and then the assistant reply with the
\* tool name and a timestamp, and absent compaction the stored history
\* after the turn is the history before the turn followed by the two.
C23_AsStated ==
    \A t \in ChatTurnIds :
        TurnDone(t) =>
            LET turn == chatTurns[t]
            IN  /\ Len(turn.sent) = 2
                /\ Len(turn.writes) = 2
                /\ turn.sent[1] = UserMessage(t)
                /\ turn.sent[2].role = "assistant"
                /\ HasKey(turn.sent[2], "timestamp")
                /\ HasKey(turn.sent[2].metadata, "tool_used")
                /\ NotCompacted(t) =>
                       /\ turn.writes[2].ok
                       /\ turn.writes[2].written = turn.before \o turn.sent

\* C24: history appends are read-modify-write on one key and the last
\* write wins: what a turn writes is the history it read followed by its
\* message (compacted over the token limit), and the store takes it
\* whatever it holds by then, also a history that another turn has
\* extended since the read. Two turns on one conversation can therefore
\* lose a message (the witness).
C24_LastWriteWins ==
    \A t \in ChatTurnIds :
        LET turn == chatTurns[t]
        IN  /\ Len(turn.writes) <= Len(turn.sent)
            /\ \A i \in 1..Len(turn.writes) :
                   LET w == turn.writes[i]
                       extended == w.read \o <<turn.sent[i]>>
                   IN  /\ estimate_token_count(extended) <= MAX_TOKEN_COUNT
                              => w.written = extended
                       /\ w.written[Len(w.written)] = turn.sent[i]
            /\ \A i \in 1..Len(turn.writes) :
                   LET w == turn.writes[i]
                   IN  w.after = IF w.ok THEN w.written ELSE w.over

\* Both turns returned success with every write taken by the store, one of
\* them wrote over a history that the other had extended since its read,
\* and the message the other had appended is not in the stored history.
C24_Witness ==
    \E t \in ChatTurnIds, u \in ChatTurnIds :
        /\ t # u
        /\ TurnDone(t) /\ chatTurns[t].result.status = "success"
        /\ TurnDone(u) /\ chatTurns[u].result.status = "success"
        /\ \A i \in 1..2 : chatTurns[t].writes[i].ok
        /\ \A i \in 1..2 : chatTurns[u].writes[i].ok
        /\ \E i \in 1..2 :
               chatTurns[t].writes[i].over =
                   chatTurns[t].writes[i].read \o <<UserMessage(u)>>
        /\ ~\E k \in 1..Len(StoredHistory) :
               StoredHistory[k] = UserMessage(u)

\* C28 as the specification states it: on any failure inside a chat turn
\* the reply is a friendly apology, and the raw error text is in the
\* metadata only, never in the response or the message of the envelope.
C28_AsStated ==
    \A t \in ChatTurnIds :
        (TurnDone(t) /\ chatTurns[t].result.status = "error") =>
            LET result == chatTurns[t].result
            IN  /\ result.response = <<ChatApology>>
                /\ ~\E i \in 1..Len(result.message) :
                       result.message[i] = result.metadata.error


----------------------------------------------------------------------------
\* webScraper.py: search_web, _search_with_serper and the rotation of the
\* search keys. The requests run on one event loop; _get_next_serper_key
\* has no await, so a request takes its key and advances the counter in
\* one step.

MaxKeys == 3
MaxSearchCalls == 6

SearchRequests == {"r1", "r2", "r3"}

\* The configured key lists: the list of the source has one active entry
\* and six more that are commented out.
KeyNames ==
    <<"key 1", "key 2", "key 3", "key 4", "key 5", "key 6", "key 7">>

KeyLists == {SubSeq(KeyNames, 1, n) : n \in 1..MaxKeys}

NextKeyIndexStuck(index, n) == IF index + 1 < n THEN index + 1 ELSE index

\* serperKeyIndex = (serperKeyIndex + 1) % len(SERPER_API_KEYS)
NextKeyIndex(index, n) == (index + 1) % n

\* What the provider gives to session.post.
SerperResponses == {"200", "429", "raised"}

\* The value _search_with_serper returns, and search_web with it.
SerperResult(response) ==
    IF response = "200"
    THEN [contexts |-> <<>>, stories |-> None, relatedSearches |-> None,
          images |-> None]
    ELSE PyList(<<>>)

IdleSearch == [pc |-> "idle", api_key |-> None, result |-> Nothing]

\* search_web to the await of session.post: the key is taken and the
\* counter advanced.
SearchStart(r) ==
    /\ searching[r].pc # "post"
    /\ Len(serperLog) < MaxSearchCalls
    /\ LET key == SERPER_API_KEYS[serperKeyIndex + 1]
       IN  /\ serperKeyIndex' =
                  NextKeyIndex(serperKeyIndex, Len(SERPER_API_KEYS))
           /\ serperLog' = Append(serperLog,
                  [request |-> r, index |-> serperKeyIndex, key |-> key])
           /\ searching' = [searching EXCEPT ![r] =
                  [pc |-> "post", api_key |-> key, result |-> Nothing]]
    /\ UNCHANGED <<redis, redisUp, qaLog, selVars, newsVars, histVars,
                   resVars, scrVars, synLog, routeLast, chatTurns,
                   SERPER_API_KEYS, loopVars, cacheLast, apiVars>>

\* The provider answers, or the request fails, and search_web returns.
SearchReturns(r) ==
    /\ searching[r].pc = "post"
    /\ \E response \in SerperResponses :
           searching' = [searching EXCEPT ![r] =
               [@ EXCEPT !.pc = "returned",
                         !.result = Some(SerperResult(response))]]
    /\ UNCHANGED <<redis, redisUp, qaLog, selVars, newsVars, histVars,
                   resVars, scrVars, synLog, routeLast, chatTurns,
                   SERPER_API_KEYS, serperKeyIndex, serperLog, loopVars, cacheLast, apiVars>>

InitSearch ==
    /\ redis = <<>>
    /\ redisUp = TRUE
    /\ qaLog = <<>>
    /\ selStrategy = <<>>
    /\ selOriginal = <<>>
    /\ selResult = <<>>
    /\ selPrev = <<>>
    /\ selCalls = 0
    /\ serpKeySet = TRUE
    /\ newsLast = NoCall
    /\ newsWriter = <<>>
    /\ histLast = NoOp
    /\ histSent = 0
    /\ resPc = "idle"
    /\ resRun = NoRun
    /\ resResult = NoCall
    /\ scrLast = NoCall
    /\ robots_txt_cache = <<>>
    /\ synLog = <<>>
    /\ routeLast = NoCall
    /\ chatTurns = <<>>
    /\ SERPER_API_KEYS \in KeyLists
    /\ serperKeyIndex = 0
    /\ serperLog = <<>>
    /\ searching = [r \in SearchRequests |-> IdleSearch]
    /\ loopRequests = <<>>
    /\ loopHeld = "none"
    /\ cacheLast = NoCall
    /\ endpointRequests = <<>>
    /\ genLast = NoCall
    /\ keyLast = <<>>

NextSearch ==
    \/ \E r \in SearchRequests : SearchStart(r)
    \/ \E r \in SearchRequests : SearchReturns(r)

SpecSearch == InitSearch /\ [][NextSearch]_vars

\* The number of the calls among first..last that used the key at position
\* j of the list.
CallsWithKey(first, last, j) ==
    Cardinality({k \in first..last : serperLog[k].index = j})

\* C25: the search keys are used round-robin with one counter that wraps
\* modulo the length of the key list: the counter stays in 0..N-1, the
\* k-th search call (counted from 0) uses key number k mod N, and with
\* any interleaving of the requests every N consecutive calls use each key
\* once.
C25_RoundRobin ==
    LET N == Len(SERPER_API_KEYS)
    IN  /\ serperKeyIndex \in 0..(N - 1)
        /\ serperKeyIndex = Len(serperLog) % N
        /\ \A k \in 1..Len(serperLog) :
               /\ serperLog[k].index = (k - 1) % N
               /\ serperLog[k].key = SERPER_API_KEYS[((k - 1) % N) + 1]
        /\ \A first \in 1..Len(serperLog) :
               first + N - 1 <= Len(serperLog) =>
                   \A j \in 0..(N - 1) :
                       CallsWithKey(first, first + N - 1, j) = 1
        /\ \A r \in SearchRequests :
               searching[r].pc = "post" =>
                   \E k \in 1..Len(serperLog) :
                       /\ serperLog[k].request = r
                       /\ serperLog[k].key = searching[r].api_key

\* Three keys, the counter has wrapped, and the calls of three requests
\* are interleaved: all three are waiting for the provider at once and a
\* request has started a second call in between.
C25_Witness ==
    /\ Len(SERPER_API_KEYS) = 3
    /\ Len(serperLog) >= 5
    /\ \A r \in SearchRequests : searching[r].pc = "post"
    /\ serperLog[4].request # serperLog[1].request

----------------------------------------------------------------------------
\* The order of the stages of perform_research.

\* The stage an operation of perform_research belongs to.
StageOf(call) ==
    CASE call = "analyze_query" -> 1
      [] call \in {"fetch_news", "search_web"} -> 2
      [] call = "scrape_webpage" -> 3
      [] call = "analyze_content" -> 4
      [] call = "synthesize_information" -> 5

CallsOfStage(stage) ==
    {k \in 1..Len(resRun.calls) : StageOf(resRun.calls[k]) = stage}

\* C26: within one research run the stages execute in the order analyze,
\* gather, scrape, analyze-content, synthesize: an operation starts only
\* when every operation started before it has returned or failed, and no
\* operation of an earlier stage starts after one of a later stage.
C26_StagesInOrder ==
    /\ \A i \in 1..Len(resRun.calls), j \in 1..Len(resRun.calls) :
           i < j => StageOf(resRun.calls[i]) <= StageOf(resRun.calls[j])
    /\ resPc \notin {"idle", "done"} =>
           /\ resRun.calls # <<>>
           /\ resRun.calls[Len(resRun.calls)] = resPc
    /\ resRun.calls # <<>> =>
           /\ CallsOfStage(1) = {1}
           /\ Cardinality(CallsOfStage(5)) <= 1

\* A deep run that went through all five stages, with both gather
\* operations, several scrapes and several content analyses, and returned
\* its report.
C26_Witness ==
    /\ resPc = "done"
    /\ ~resResult.raised
    /\ resResult.value.status = "success"
    /\ Cardinality(CallsOfStage(2)) = 2
    /\ Cardinality(CallsOfStage(3)) >= 2
    /\ Cardinality(CallsOfStage(4)) >= 2
    /\ Cardinality(CallsOfStage(5)) = 1

\* A uniform envelope: a dict whose status is 'success' or 'error'.
IsEnvelope(value) ==
    /\ HasKey(value, "status")
    /\ value.status \in {"success", "error"}

\* C27 as the specification states it, for search_web: every call ends by
\* returning an envelope whose status is 'success' or 'error', also when
\* the provider or the transport fails.
C27_AsStated ==
    \A r \in SearchRequests :
        searching[r].pc = "returned" => IsEnvelope(searching[r].result.val)

----------------------------------------------------------------------------
\* The cached operations and a chat turn while the store comes and goes.

OutageUser == <<"u1">>

OutageQuery == <<"q1">>

OutageUrl == "http://a/p"

OutageNewsCall == <<OutageUser, OutageQuery, 2, 7>>

OutageSources == <<WebSource(Context("a", <<"about a">>))>>

OutageFetchOutcomes ==
    {[kind |-> "request_error", pages |-> <<>>],
     [kind |-> "ok", pages |-> <<"p1">>]}

\* The provider raises, or answers with three articles.
OutageProviderOutcomes ==
    {o \in ProviderOutcomes :
         o.raised \/ (Len(o.news) = 3 /\ o.news[1].title = "a")}

OutageSynthOutcomes ==
    {o \in SynthGenOutcomes : o.raised \/ o.text = <<"answer 1">>}

OutageTurns == {"t1"}

\* What a call of a cached operation did: the operation, the answer of
\* its provider, whether the store answered, and what the call returned.
Observed(op, out, result) ==
    [made |-> TRUE, op |-> op, out |-> out, up |-> redisUp,
     result |-> result]

CallAnalyzeQuery ==
    /\ \E out \in GenOutcomes :
           LET c == AnalyzeQueryCall(redis, redisUp, OutageUser, OutageQuery,
                                     out)
           IN  /\ redis' = c.store
               /\ cacheLast' = Observed("analyze_query", out, c.result)
    /\ UNCHANGED <<redisUp, qaLog, selVars, newsVars, histVars, resVars,
                   scrVars, synLog, routeLast, chatTurns, serperVars,
                   loopVars, apiVars>>

CallFetchNews ==
    /\ \E out \in OutageProviderOutcomes :
           LET c == FetchNewsCall(redis, redisUp, serpKeySet,
                                  OutageNewsCall[1], OutageNewsCall[2],
                                  OutageNewsCall[3], OutageNewsCall[4], out)
           IN  /\ redis' = c.store
               /\ cacheLast' = Observed("fetch_news", out, c.result)
    /\ UNCHANGED <<redisUp, qaLog, selVars, newsVars, histVars, resVars,
                   scrVars, synLog, routeLast, chatTurns, serperVars,
                   loopVars, apiVars>>

CallScrapeWebpage ==
    /\ \E fetched \in OutageFetchOutcomes, kind \in {"ok", "raise"} :
           LET kinds == [k \in 1..Len(PagesToSummarize(
                                         redis, redisUp, OutageUser,
                                         OutageUrl, fetched)) |-> kind]
               c == ScrapeWebpageCall(redis, redisUp, OutageUser, OutageUrl,
                                      fetched, kinds, "none")
           IN  /\ redis' = c.store
               /\ cacheLast' = Observed("scrape_webpage",
                                        [fetched |-> fetched, kind |-> kind],
                                        c.result)
    /\ UNCHANGED <<redisUp, qaLog, selVars, newsVars, histVars, resVars,
                   scrVars, synLog, routeLast, chatTurns, serperVars,
                   loopVars, apiVars>>

CallSynthesizeInformation ==
    /\ \E out \in OutageSynthOutcomes :
           LET c == SynthesizeInformationCall(redis, redisUp, OutageUser,
                                              OutageSources, OutageQuery,
                                              out)
           IN  /\ redis' = c.store
               /\ cacheLast' = Observed("synthesize_information", out,
                                        c.result)
    /\ UNCHANGED <<redisUp, qaLog, selVars, newsVars, histVars, resVars,
                   scrVars, synLog, routeLast, chatTurns, serperVars,
                   loopVars, apiVars>>

InitOutage ==
    /\ redis = <<>>
    /\ redisUp = TRUE
    /\ qaLog = <<>>
    /\ selStrategy = <<>>
    /\ selOriginal = <<>>
    /\ selResult = <<>>
    /\ selPrev = <<>>
    /\ selCalls = 0
    /\ serpKeySet = TRUE
    /\ newsLast = NoCall
    /\ newsWriter = <<>>
    /\ histLast = NoOp
    /\ histSent = 0
    /\ resPc = "idle"
    /\ resRun = NoRun
    /\ resResult = NoCall
    /\ scrLast = NoCall
    /\ robots_txt_cache = <<>>
    /\ synLog = <<>>
    /\ routeLast = NoCall
    /\ chatTurns = [t \in OutageTurns |-> IdleTurn]
    /\ SERPER_API_KEYS = <<"key 1">>
    /\ serperKeyIndex = 0
    /\ serperLog = <<>>
    /\ searching = {}
    /\ loopRequests = <<>>
    /\ loopHeld = "none"
    /\ cacheLast = NoCall
    /\ endpointRequests = <<>>
    /\ genLast = NoCall
    /\ keyLast = <<>>

NextOutage ==
    \/ CallAnalyzeQuery
    \/ CallFetchNews
    \/ CallScrapeWebpage
    \/ CallSynthesizeInformation
    \/ \E t \in OutageTurns : ChatStart(t)
    \/ \E t \in OutageTurns : DetectReturns(t)
    \/ \E t \in OutageTurns : UpdateReads(t)
    \/ \E t \in OutageTurns : UpdateStoresUser(t)
    \/ \E t \in OutageTurns : GenerateReturns(t)
    \/ \E t \in OutageTurns : UpdateStoresAssistant(t)
    \/ RedisFail
    \/ RedisRecover

SpecOutage == InitOutage /\ [][NextOutage]_vars

\* What the observed call returns on a plain miss: the store answers and
\* holds nothing, the provider answers as it did.
OnMiss(call) ==
    CASE call.op = "analyze_query" ->
             AnalyzeQueryCall(<<>>, TRUE, OutageUser, OutageQuery,
                              call.out).result
      [] call.op = "fetch_news" ->
             FetchNewsCall(<<>>, TRUE, serpKeySet,
                           OutageNewsCall[1], OutageNewsCall[2],
                           OutageNewsCall[3], OutageNewsCall[4],
                           call.out).result
      [] call.op = "scrape_webpage" ->
             ScrapeWebpageCall(<<>>, TRUE, OutageUser, OutageUrl,
                               call.out.fetched,
                               [k \in 1..Len(call.out.fetched.pages) |->
                                    call.out.kind],
                               "none").result
      [] call.op = "synthesize_information" ->
             SynthesizeInformationCall(<<>>, TRUE, OutageUser, OutageSources,
                                       OutageQuery, call.out).result

\* What chat returns for the turn on a plain miss: the history read is
\* empty, the tools and the model answer as they did.
ChatOnMiss(t, detected, generated) ==
    IF detected.raised THEN ChatError(detected.error)
    ELSE LET tool_context == format_tool_result_for_llm(detected.value)
         IN  IF tool_context.raised THEN ChatError(tool_context.error)
             ELSE ChatSuccess(generate_contextual_response(t, generated.val),
                              ToolUsedOf(detected.value))

\* The turn has run so far with the store down at each read and write.
TurnDuringOutage(t) ==
    chatTurns[t].pc # "idle" /\ chatTurns[t].down

\* C29: cache unavailability is never fatal. A call of analyze_query,
\* fetch_news, scrape_webpage or synthesize_information made while no read
\* and no write of the store succeeds returns what it returns on a plain
\* miss, whatever the store holds; a chat turn run during the outage reads
\* the empty history of a miss, fails no write visibly, and returns what
\* it returns on a plain miss.
C29_OutageIsAMiss ==
    /\ (cacheLast.made /\ ~cacheLast.up) =>
           cacheLast.result = OnMiss(cacheLast)
    /\ \A t \in DOMAIN chatTurns :
           TurnDuringOutage(t) =>
               LET turn == chatTurns[t]
               IN  /\ turn.pc # "done" =>
                          /\ turn.temp_history =
                                 get_conversation_history(
                                     <<>>, TRUE, TheConversation)
                                     \o <<UserMessage(t)>>
                          /\ turn.history = <<>>
                   /\ \A i \in 1..Len(turn.writes) :
                          /\ ~turn.writes[i].ok
                          /\ turn.writes[i].after = turn.writes[i].over
                   /\ turn.pc = "done" =>
                          turn.result =
                              ChatOnMiss(t, turn.detected.val,
                                         turn.generated)

\* A chat turn has returned success with the store down throughout, and
\* the last cached operation was called during the outage with an entry
\* for its key in the store and returned something else than the entry.
C29_Witness ==
    /\ ~redisUp
    /\ cacheLast.made /\ ~cacheLast.up
    /\ cacheLast.op = "analyze_query"
    /\ RedisGet(redis, TRUE, QueryAnalysisKey(OutageUser, OutageQuery)).some
    /\ RedisGet(redis, TRUE, QueryAnalysisKey(OutageUser, OutageQuery)).val
           # cacheLast.result
    /\ cacheLast.result.status = "success"
    /\ \E t \in DOMAIN chatTurns :
           /\ chatTurns[t].pc = "done"
           /\ chatTurns[t].down
           /\ chatTurns[t].result.status = "success"
           /\ Len(chatTurns[t].writes) = 2

----------------------------------------------------------------------------
\* The event loop. The application runs in one process (uvicorn.run, one
\* worker) and every endpoint is a coroutine: one request runs at a time,
\* and another one runs only when the running one reaches an await that
\* suspends it.

LoopRequestIds == {"r1", "r2", "r3"}

\* The network-bound operations and how the code makes them.
NetworkOps ==
    {"generation call",         \* await AsyncOpenAI chat.completions.create
     "search-provider call",    \* async with session.post (aiohttp)
     "news-provider call",      \* GoogleSearch(params).get_dict()
     "page fetch of scrape_webpage",    \* requests.get
     "page fetch of read_webpage",      \* async with session.get (aiohttp)
     "robots.txt fetch"}        \* async with session.get (aiohttp)

\* The calls made with an await suspend the coroutine.
Awaited(op) ==
    op \in {"generation call", "search-provider call",
            "page fetch of read_webpage", "robots.txt fetch"}

\* The calls made without an await return only when the answer is there:
\* the event loop runs nothing else meanwhile.
Synchronous(op) ==
    op \in {"news-provider call", "page fetch of scrape_webpage"}

IdleRequest == [pc |-> "idle", op |-> "none"]

\* The loop starts to run a request that has arrived.
LoopAccepts(r) ==
    /\ loopHeld = "none"
    /\ loopRequests[r].pc = "idle"
    /\ loopRequests' = [loopRequests EXCEPT ![r].pc = "running"]
    /\ UNCHANGED loopHeld
    /\ UNCHANGED <<redis, redisUp, qaLog, selVars, newsVars, histVars,
                   resVars, scrVars, synLog, routeLast, chatTurns,
                   serperVars, cacheLast, apiVars>>

\* A request runs up to a network-bound operation and waits for its
\* answer.
LoopCalls(r) ==
    /\ loopHeld = "none"
    /\ loopRequests[r].pc = "running"
    /\ \E op \in NetworkOps :
           /\ loopRequests' = [loopRequests EXCEPT ![r] =
                  [pc |-> "waiting", op |-> op]]
           /\ loopHeld' = IF Synchronous(op) THEN r ELSE "none"
    /\ UNCHANGED <<redis, redisUp, qaLog, selVars, newsVars, histVars,
                   resVars, scrVars, synLog, routeLast, chatTurns,
                   serperVars, cacheLast, apiVars>>

\* The answer of the operation is there: a synchronous call returns and
\* the request runs on; a suspended request is resumed when the loop is
\* free.
LoopAnswers(r) ==
    /\ loopRequests[r].pc = "waiting"
    /\ loopHeld \in {"none", r}
    /\ loopRequests' = [loopRequests EXCEPT ![r] =
           [pc |-> "running", op |-> "none"]]
    /\ loopHeld' = "none"
    /\ UNCHANGED <<redis, redisUp, qaLog, selVars, newsVars, histVars,
                   resVars, scrVars, synLog, routeLast, chatTurns,
                   serperVars, cacheLast, apiVars>>

\* A request returns its response.
LoopReturns(r) ==
    /\ loopHeld = "none"
    /\ loopRequests[r].pc = "running"
    /\ loopRequests' = [loopRequests EXCEPT ![r] = IdleRequest]
    /\ UNCHANGED loopHeld
    /\ UNCHANGED <<redis, redisUp, qaLog, selVars, newsVars, histVars,
                   resVars, scrVars, synLog, routeLast, chatTurns,
                   serperVars, cacheLast, apiVars>>

InitLoop ==
    /\ redis = <<>>
    /\ redisUp = TRUE
    /\ qaLog = <<>>
    /\ selStrategy = <<>>
    /\ selOriginal = <<>>
    /\ selResult = <<>>
    /\ selPrev = <<>>
    /\ selCalls = 0
    /\ serpKeySet = TRUE
    /\ newsLast = NoCall
    /\ newsWriter = <<>>
    /\ histLast = NoOp
    /\ histSent = 0
    /\ resPc = "idle"
    /\ resRun = NoRun
    /\ resResult = NoCall
    /\ scrLast = NoCall
    /\ robots_txt_cache = <<>>
    /\ synLog = <<>>
    /\ routeLast = NoCall
    /\ chatTurns = <<>>
    /\ SERPER_API_KEYS = <<"key 1">>
    /\ serperKeyIndex = 0
    /\ serperLog = <<>>
    /\ searching = {}
    /\ loopRequests = [r \in LoopRequestIds |-> IdleRequest]
    /\ loopHeld = "none"
    /\ cacheLast = NoCall
    /\ endpointRequests = <<>>
    /\ genLast = NoCall
    /\ keyLast = <<>>

NextLoop ==
    \/ \E r \in LoopRequestIds : LoopAccepts(r)
    \/ \E r \in LoopRequestIds : LoopCalls(r)
    \/ \E r \in LoopRequestIds : LoopAnswers(r)
    \/ \E r \in LoopRequestIds : LoopReturns(r)

SpecLoop == InitLoop /\ [][NextLoop]_vars

\* The request can take a step: it is started, runs on to its next call
\* or returns.
CanTakeStep(r) ==
    /\ loopHeld = "none"
    /\ loopRequests[r].pc \in {"idle", "running"}

\* C30 as the specification states it: every network-bound operation is
\* a suspension point: while one request waits on it, the other requests
\* that have something to do can still take steps.
C30_AsStated ==
    \A r \in LoopRequestIds :
        loopRequests[r].pc = "waiting" =>
            \A other \in LoopRequestIds \ {r} :
                loopRequests[other].pc \in {"idle", "running"}
                    => CanTakeStep(other)

----------------------------------------------------------------------------
\* routers/app.py: the research and scrape endpoints. A request waits for
\* perform_research or for scrape_webpage; time passes while it waits.

EndpointRequestIds == {"e1", "e2"}

Endpoints == {"research", "scrape"}

\* The global timeout of an endpoint in seconds: asyncio.wait_for(...,
\* timeout=60) in scrape, Nothing for research, which awaits
\* perform_research directly.
GlobalTimeout(endpoint) ==
    IF endpoint = "scrape" THEN Some(60) ELSE Nothing

\* The time a request has waited, as far as the endpoints tell it apart:
\* less than 60 seconds, or 60 seconds and more.
Waited == {"under 60 s", "60 s and more"}

IdleEndpoint ==
    [endpoint |-> "none", pc |-> "idle", waited |-> "under 60 s",
     outcome |-> Nothing]

\* What the awaited operation ends with.
OperationOutcomes == {"success envelope", "error envelope", "raised"}

\* The response of the endpoint: the envelope with status 200, HTTP 500
\* from the generic except branch.
Responded(operation_outcome) ==
    IF operation_outcome = "raised"
    THEN [status_code |-> 500, body |-> "failed"]
    ELSE [status_code |-> 200, body |-> operation_outcome]

\* HTTP 504 from the except asyncio.TimeoutError branch.
TimedOut == [status_code |-> 504, body |-> "timed out after 60 seconds"]

\* A request arrives and the endpoint awaits its operation.
EndpointCalled(e) ==
    /\ endpointRequests[e].pc = "idle"
    /\ \E endpoint \in Endpoints :
           endpointRequests' = [endpointRequests EXCEPT ![e] =
               [endpoint |-> endpoint, pc |-> "awaiting",
                waited |-> "under 60 s", outcome |-> Nothing]]
    /\ UNCHANGED <<redis, redisUp, qaLog, selVars, newsVars, histVars,
                   resVars, scrVars, synLog, routeLast, chatTurns,
                   serperVars, loopVars, cacheLast, genLast, keyLast>>

\* The sixtieth second of the wait goes by. With wait_for the operation is
\* cancelled and the endpoint answers from its TimeoutError branch;
\* without it the request goes on waiting.
SixtySecondsPass(e) ==
    /\ endpointRequests[e].pc = "awaiting"
    /\ endpointRequests[e].waited = "under 60 s"
    /\ endpointRequests' = [endpointRequests EXCEPT ![e] =
           IF GlobalTimeout(@.endpoint).some
           THEN [@ EXCEPT !.pc = "done", !.waited = "60 s and more",
                          !.outcome = Some(TimedOut)]
           ELSE [@ EXCEPT !.waited = "60 s and more"]]
    /\ UNCHANGED <<redis, redisUp, qaLog, selVars, newsVars, histVars,
                   resVars, scrVars, synLog, routeLast, chatTurns,
                   serperVars, loopVars, cacheLast, genLast, keyLast>>

\* The operation returns or raises and the endpoint answers.
OperationEnds(e) ==
    /\ endpointRequests[e].pc = "awaiting"
    /\ \E o \in OperationOutcomes :
           endpointRequests' = [endpointRequests EXCEPT ![e] =
               [@ EXCEPT !.pc = "done", !.outcome = Some(Responded(o))]]
    /\ UNCHANGED <<redis, redisUp, qaLog, selVars, newsVars, histVars,
                   resVars, scrVars, synLog, routeLast, chatTurns,
                   serperVars, loopVars, cacheLast, genLast, keyLast>>

\* The response is sent; the slot serves the next request.
EndpointAnswered(e) ==
    /\ endpointRequests[e].pc = "done"
    /\ endpointRequests' = [endpointRequests EXCEPT ![e] = IdleEndpoint]
    /\ UNCHANGED <<redis, redisUp, qaLog, selVars, newsVars, histVars,
                   resVars, scrVars, synLog, routeLast, chatTurns,
                   serperVars, loopVars, cacheLast, genLast, keyLast>>

InitEndpoint ==
    /\ redis = <<>>
    /\ redisUp = TRUE
    /\ qaLog = <<>>
    /\ selStrategy = <<>>
    /\ selOriginal = <<>>
    /\ selResult = <<>>
    /\ selPrev = <<>>
    /\ selCalls = 0
    /\ serpKeySet = TRUE
    /\ newsLast = NoCall
    /\ newsWriter = <<>>
    /\ histLast = NoOp
    /\ histSent = 0
    /\ resPc = "idle"
    /\ resRun = NoRun
    /\ resResult = NoCall
    /\ scrLast = NoCall
    /\ robots_txt_cache = <<>>
    /\ synLog = <<>>
    /\ routeLast = NoCall
    /\ chatTurns = <<>>
    /\ SERPER_API_KEYS = <<"key 1">>
    /\ serperKeyIndex = 0
    /\ serperLog = <<>>
    /\ searching = {}
    /\ loopRequests = <<>>
    /\ loopHeld = "none"
    /\ cacheLast = NoCall
    /\ endpointRequests = [e \in EndpointRequestIds |-> IdleEndpoint]
    /\ genLast = NoCall
    /\ keyLast = <<>>

NextEndpoint ==
    \/ \E e \in EndpointRequestIds : EndpointCalled(e)
    \/ \E e \in EndpointRequestIds : SixtySecondsPass(e)
    \/ \E e \in EndpointRequestIds : OperationEnds(e)
    \/ \E e \in EndpointRequestIds : EndpointAnswered(e)

SpecEndpoint == InitEndpoint /\ [][NextEndpoint]_vars

\* C31 as the specification states it: a request of the scrape or of the
\* research endpoint that is still waiting when the global timeout of 60
\* seconds expires ends with the timed-out outcome, which differs from
\* the generic error outcome of the endpoint.
C31_AsStated ==
    \A e \in EndpointRequestIds :
        LET request == endpointRequests[e]
        IN  request.waited = "60 s and more" =>
                /\ request.pc = "done"
                /\ request.outcome.val = TimedOut
                /\ request.outcome.val.status_code
                       # Responded("raised").status_code

----------------------------------------------------------------------------
\* The deep-scrape stage of perform_research.

\* if source.get("url") and not source.get("content")
NeedsScrape(source) == source.url # "" /\ ~Truthy(source.content)

\* C34 as the specification states it: in the deep-scrape stage
\* scrape_webpage is invoked only for selected web sources that have a URL
\* and lack inline content; the other selected sources are skipped without
\* a scrape call.
C34_AsStated ==
    \A k \in 1..Len(resRun.results) :
        \E p \in 1..Len(resRun.sources) :
            /\ resRun.sources[p].url = resRun.results[k].url
            /\ resRun.sources[p].source_type = "web"
            /\ NeedsScrape(resRun.sources[p])

----------------------------------------------------------------------------
\* The bounds of the stored history.

\* The positions of the summary messages in a history.
SummaryPositions(history) ==
    {k \in 1..Len(history) : IsSummaryMessage(history[k])}

\* C36 as stated: after any sequence of update_conversation_history calls
\* on one key the stored history holds at most one 'Previous conversation
\* summary' system message, and when there is one it is the first element.
C36_AsStated ==
    SummaryPositions(StoredHistory) \subseteq {1}

\* Maximum context history to maintain (number of exchanges).
MAX_CONTEXT_LENGTH == 10

MaxTestMessages == 22

\* The messages of test_history_summarization:
\* "This is test message {i+1}. Please acknowledge it." and
\* "I acknowledge test message {i+1}."
TestMessage(n) ==
    IF n % 2 = 1
    THEN [role |-> "user",
          content |-> [text |-> <<"This is test message ", (n + 1) \div 2,
                                  ". Please acknowledge it.">>,
                       chars |-> 46]]
    ELSE [role |-> "assistant",
          content |-> [text |-> <<"I acknowledge test message ", n \div 2,
                                  ".">>,
                       chars |-> 29]]

\* test_history_summarization: the next update_conversation_history call
\* of its loop, which is carried on beyond the eighth exchange.
TestUpdate ==
    \E out \in SummaryOutcomes :
        LET r == update_conversation_history(redis, redisUp, TheConversation,
                                             <<TestMessage(histSent + 1)>>,
                                             out)
        IN  /\ histSent < MaxTestMessages
            /\ histSent' = IF r.stored THEN histSent + 1 ELSE histSent
            /\ redis' = r.store
            /\ histLast' = [made |-> TRUE, op |-> "update",
                            after |-> histLast.op,
                            read |-> r.read, extended |-> r.extended,
                            exceeded |-> r.exceeded, written |-> r.written,
                            stored |-> r.stored, history |-> <<>>]
    /\ UNCHANGED <<redisUp, redisUp, qaLog, selVars, newsVars, resVars, scrVars,
                   synLog, routeLast, chatTurns, serperVars, loopVars,
                   cacheLast, endpointRequests, genLast, keyLast>>

NextTestHistory ==
    \/ TestUpdate
    \/ get_chat_history
    \/ Expire
    \/ RedisFail
    \/ RedisRecover

SpecTestHistory == InitHistory /\ [][NextTestHistory]_vars

\* C33 as stated: the stored history never holds more than
\* MAX_CONTEXT_LENGTH exchanges, and once the 8 exchanges of the test (16
\* messages) are appended the older messages have been replaced by a
\* 'Previous conversation summary' system message.
C33_AsStated ==
    /\ Len(StoredHistory) <= 2 * MAX_CONTEXT_LENGTH
    /\ Len(StoredHistory) >= 16 => SummaryPositions(StoredHistory) # {}

----------------------------------------------------------------------------
\* What a chat turn returns and what it leaves in the store.

\* C35 as stated: a chat turn is all-or-nothing with respect to the stored
\* history: a turn that returns the error result has stored nothing, so no
\* user message is left in the history without the reply of its turn.
C35_AsStated ==
    \A t \in ChatTurnIds :
        (TurnDone(t) /\ chatTurns[t].result.status = "error") =>
            /\ chatTurns[t].sent = <<>>
            /\ \A i \in 1..Len(chatTurns[t].writes) :
                   ~chatTurns[t].writes[i].ok

\* C37 as stated: chat never raises: for every tool outcome and every
\* cache or generation failure it returns a dict whose status is
\* 'success' or 'error' and whose response is a non-empty string.
C37_AsStated ==
    \A t \in ChatTurnIds :
        TurnDone(t) =>
            /\ chatTurns[t].result.status \in {"success", "error"}
            /\ chatTurns[t].result.response # <<>>

-----------------------------------------------------------------------------
(* The callers of the Generation Service and what each does with the       *)
(* response: analyzer.py 71-119 and 160-262, web.py 80-122,                *)
(* chatEngine.py 76-98 and 456-468, webScraper.py 508-560.                 *)

\* the finish reasons the provider reports for a choice
FinishReasons == {"stop", "length", "content_filter", "tool_calls"}

\* response.choices[0].message.content: a text, the empty string or None
Contents ==
    {Some(<<"complete text">>), Some(<<"truncated text">>), Some(<<>>), Nothing}

GenerationResponses ==
    {[finish_reason |-> f, content |-> c] : f \in FinishReasons, c \in Contents}

GenerationCallers ==
    {"analyze_query", "analyze_content", "summarize_pages chunk",
     "summarize_pages aggregation", "synthesize_information",
     "summarize_conversation_history", "generate_contextual_response"}

\* the test of webScraper.py lines 517-519 and 552-554
Complete(response) ==
    response.finish_reason = "stop" /\ Truthy(response.content)

\* the content is used as the result of a successful call
UsedAsResult(text) == [use |-> "normal result", text |-> text]

\* a fixed string, or the joined chunk summaries, stands for the content
Fallback(text) == [use |-> "fallback", text |-> Some(text)]

\* the caller's except branch caught an exception and answers with its
\* error envelope
ErrorEnvelope(message) == [use |-> "error envelope", text |-> Some(message)]

\* str(content) inside the f-string of chatEngine.py line 89
Formatted(content) == IF content.some THEN content.val ELSE <<"None">>

\* analyze_query, analyze_content and synthesize_information run re.search
\* on the content: None makes it raise TypeError inside their try
ParsedByRegex(response, prefix) ==
    IF response.content.some
    THEN UsedAsResult(response.content)
    ELSE ErrorEnvelope(<<prefix, "expected string or bytes-like object">>)

CallerResult(caller, response) ==
    CASE caller = "summarize_pages chunk" ->
            IF Complete(response)
            THEN UsedAsResult(response.content)
            ELSE Fallback(<<"Summary not completed for chunk ", "1", ".">>)
      [] caller = "summarize_pages aggregation" ->
            IF Complete(response)
            THEN UsedAsResult(response.content)
            ELSE Fallback(<<"aggregated_content">>)
      [] caller = "analyze_query" ->
            ParsedByRegex(response, "Error analyzing query: ")
      [] caller = "analyze_content" ->
            ParsedByRegex(response, "Error analyzing content: ")
      [] caller = "synthesize_information" ->
            ParsedByRegex(response, "Error synthesizing information: ")
      [] caller = "summarize_conversation_history" ->
            UsedAsResult(Some(<<"Previous conversation summary: ">>
                               \o Formatted(response.content)))
      [] caller = "generate_contextual_response" ->
            UsedAsResult(response.content)

\* one generation request of one caller, answered by the provider
Generate(caller, response) ==
    /\ genLast' = [made |-> TRUE, caller |-> caller, response |-> response,
                   result |-> CallerResult(caller, response)]
    /\ UNCHANGED <<redis, redisUp, qaLog, selVars, newsVars, histVars,
                   resVars, scrVars, synLog, routeLast, chatTurns,
                   serperVars, loopVars, cacheLast, endpointRequests,
                   keyLast>>

InitGeneration ==
    /\ redis = <<>>
    /\ redisUp = TRUE
    /\ qaLog = <<>>
    /\ selStrategy = <<>>
    /\ selOriginal = <<>>
    /\ selResult = <<>>
    /\ selPrev = <<>>
    /\ selCalls = 0
    /\ serpKeySet = TRUE
    /\ newsLast = NoCall
    /\ newsWriter = <<>>
    /\ histLast = NoOp
    /\ histSent = 0
    /\ resPc = "idle"
    /\ resRun = NoRun
    /\ resResult = NoCall
    /\ scrLast = NoCall
    /\ robots_txt_cache = <<>>
    /\ synLog = <<>>
    /\ routeLast = NoCall
    /\ chatTurns = <<>>
    /\ SERPER_API_KEYS = <<"key 1">>
    /\ serperKeyIndex = 0
    /\ serperLog = <<>>
    /\ searching = {}
    /\ loopRequests = <<>>
    /\ loopHeld = "none"
    /\ cacheLast = NoCall
    /\ endpointRequests = <<>>
    /\ genLast = NoCall
    /\ keyLast = <<>>

NextGeneration ==
    \E caller \in GenerationCallers, response \in GenerationResponses :
        Generate(caller, response)

SpecGeneration == InitGeneration /\ [][NextGeneration]_vars

\* C32: every caller of the Generation Service answers a response whose
\* finish reason is not 'stop', or whose content is missing, with a
\* fallback string: it does not raise and does not use the content as a
\* normal result.
C32_AsStated ==
    (/\ genLast.made
     /\ \/ genLast.response.finish_reason # "stop"
        \/ ~Truthy(genLast.response.content)) =>
        genLast.result.use = "fallback"

-----------------------------------------------------------------------------
(* The cache keys of the operations, as the strings Redis receives:        *)
(* analyzer.py lines 38 and 132, newsAggregator.py line 58, web.py line    *)
(* 43, webScraper.py line 382, chatEngine.py lines 36 and 109 with         *)
(* routers/app.py line 253.                                                *)

\* cache_key = f"{user_id}:analysis:{content_hash}:{md5(criteria_str)}"
ContentAnalysisKey(user_id, content, criteria_str) ==
    user_id \o <<":analysis:", Md5(content), ":", Md5(criteria_str)>>

\* A key request: the kind of operation, the owner (the user id, and the
\* session id of a chat history) and the other values the key is built from.
\* User ids, session ids, queries and URLs are strings of the request body.
KeyRequest(kind, owner, arguments) ==
    [kind |-> kind, owner |-> owner, arguments |-> arguments]

KeyRequests ==
    {KeyRequest("query analysis", <<u>>, <<q>>) :
        u \in {"a", "u"}, q \in {"b", "c"}}
    \cup {KeyRequest("scrape", <<u>>, <<url>>) :
        u \in {"a", "chat_history"},
        url \in {"http://x", "query_analysis:b", "a:s"}}
    \cup {KeyRequest("chat history", o, <<>>) :
        o \in {<<"a", "s">>, <<"a", "b:c">>, <<"a:b", "c">>, <<"u", "s">>}}
    \cup {KeyRequest("news", <<"a">>, <<"b", n, "7">>) : n \in {"1", "2"}}
    \cup {KeyRequest("synthesis", <<u>>, <<"http://x", "b">>) :
        u \in {"a", "u"}}
    \cup {KeyRequest("content analysis", <<u>>, <<"b", "{}">>) :
        u \in {"a", "u"}}

\* the key string of a request
CacheKey(r) ==
    LET user_id == <<r.owner[1]>>
        a == r.arguments
    IN  CASE r.kind = "query analysis" ->
                Concat(QueryAnalysisKey(user_id, <<a[1]>>), 1)
          [] r.kind = "scrape" ->
                Concat(StreamId(user_id, a[1]), 1)
          [] r.kind = "chat history" ->
                Concat(HistoryKey(ConversationId(user_id, <<r.owner[2]>>)), 1)
          [] r.kind = "news" ->
                Concat(NewsKey(user_id, <<a[1]>>, a[2], a[3]), 1)
          [] r.kind = "synthesis" ->
                Concat(SynthesisKey(user_id, <<[url |-> a[1]]>>, <<a[2]>>), 1)
          [] r.kind = "content analysis" ->
                Concat(ContentAnalysisKey(user_id, a[1], a[2]), 1)

\* an operation builds its key; the last two keys built are kept
BuildKey(r) ==
    /\ keyLast' = (IF Len(keyLast) = 2 THEN Tail(keyLast) ELSE keyLast)
                      \o <<[request |-> r, cache_key |-> CacheKey(r)]>>
    /\ UNCHANGED <<redis, redisUp, qaLog, selVars, newsVars, histVars,
                   resVars, scrVars, synLog, routeLast, chatTurns,
                   serperVars, loopVars, cacheLast, endpointRequests,
                   genLast>>

InitKeys ==
    /\ redis = <<>>
    /\ redisUp = TRUE
    /\ qaLog = <<>>
    /\ selStrategy = <<>>
    /\ selOriginal = <<>>
    /\ selResult = <<>>
    /\ selPrev = <<>>
    /\ selCalls = 0
    /\ serpKeySet = TRUE
    /\ newsLast = NoCall
    /\ newsWriter = <<>>
    /\ histLast = NoOp
    /\ histSent = 0
    /\ resPc = "idle"
    /\ resRun = NoRun
    /\ resResult = NoCall
    /\ scrLast = NoCall
    /\ robots_txt_cache = <<>>
    /\ synLog = <<>>
    /\ routeLast = NoCall
    /\ chatTurns = <<>>
    /\ SERPER_API_KEYS = <<"key 1">>
    /\ serperKeyIndex = 0
    /\ serperLog = <<>>
    /\ searching = {}
    /\ loopRequests = <<>>
    /\ loopHeld = "none"
    /\ cacheLast = NoCall
    /\ endpointRequests = <<>>
    /\ genLast = NoCall
    /\ keyLast = <<>>

NextKeys == \E r \in KeyRequests : BuildKey(r)

SpecKeys == InitKeys /\ [][NextKeys]_vars

\* C38: two cache keys are the same string only when they were built for
\* the same kind of operation, the same owner and the same arguments.
C38_AsStated ==
    (Len(keyLast) = 2 /\ keyLast[1].cache_key = keyLast[2].cache_key) =>
        keyLast[1].request = keyLast[2].request

-----------------------------------------------------------------------------
(* select_best_search_query, web.py lines 130-170: the bonus of 2 for a    *)
(* candidate that holds a quote.                                           *)

\* the base score without the bonus for a quote: 1 per time indicator
RecencyScore(query) ==
    Cardinality(UNION {IndicatorsIn(query[k]) : k \in 1..Len(query)})

ScoreWithoutQuoteBonus(query, searchQueries, originalQuery) ==
    FracAdd(Bm25From(LowerAll(originalQuery), 1, LowerAll(query),
                     SumLen(searchQueries, 1), Len(searchQueries)),
            Frac(RecencyScore(query), 1))

\* the selector with lines 169-170 removed
SelectWithoutQuoteBonus(searchStrategy, originalQuery) ==
    LET searchQueries == FindAll(searchStrategy)
        scored == [i \in 1..Len(searchQueries) |->
                      [query |-> searchQueries[i],
                       score |-> ScoreWithoutQuoteBonus(searchQueries[i],
                                     searchQueries, originalQuery)]]
    IN  IF searchQueries = <<>> THEN originalQuery
        ELSE IF Len(searchQueries) = 1 THEN searchQueries[1]
        ELSE SortDescFrom(scored, 1, <<>>)[1].query

\* C39: no candidate extracted from the strategy text holds a double
\* quote, so no candidate receives the bonus of 2 and the selector returns
\* what it would return without the bonus.
C39_QuoteBonusNeverAwarded ==
    selCalls >= 1 =>
        LET cands == FindAll(selStrategy)
        IN  /\ \A i \in 1..Len(cands) :
                   /\ \A k \in 1..Len(cands[i]) : cands[i][k] # Q
                   /\ BaseScore(cands[i]) = RecencyScore(cands[i])
            /\ selResult = SelectWithoutQuoteBonus(selStrategy, selOriginal)

\* A strategy text with five quotes, the last one unmatched: two candidates
\* are extracted and scored, they score differently, and the better one is
\* returned.
C39_Witness ==
    LET cands == FindAll(selStrategy)
    IN  /\ selCalls >= 1
        /\ Cardinality({k \in 1..Len(selStrategy) : selStrategy[k] = Q}) = 5
        /\ Len(cands) = 2
        /\ FracLess(FinalScore(cands[1], cands, selOriginal),
                    FinalScore(cands[2], cands, selOriginal))
        /\ selResult = cands[2]

=============================================================================
